---- MODULE Spec2Model ----
(***************************************************************************)
(* Model of the safety-net command classifier (scripts/safety_net_impl).   *)
(* Command lines, segments, tokens and paths are TLA+ strings handled      *)
(* character by character (Len, SubSeq, \o), so that tokenization,         *)
(* normalisation and the textual heuristic are computed, not assumed.      *)
(* Python's None is "" for a reason (the code only tests its truthiness)   *)
(* and an explicit option record elsewhere.                                *)
(***************************************************************************)
EXTENDS Integers, Sequences, FiniteSets, TLC

(***************************************************************************)
(* Python str / posixpath primitives                                       *)
(***************************************************************************)
Ch(s, i) == SubSeq(s, i, i)

SetMin(S) == CHOOSE m \in S : \A y \in S : m <= y
SetMax(S) == CHOOSE m \in S : \A y \in S : m >= y

Positions(s, c) == {i \in 1..Len(s) : Ch(s, i) = c}

startswith(s, p) == Len(p) <= Len(s) /\ SubSeq(s, 1, Len(p)) = p
endswith(s, p) == Len(p) <= Len(s) /\ SubSeq(s, Len(s) - Len(p) + 1, Len(s)) = p
MatchAt(s, p, i) == i >= 1 /\ i + Len(p) - 1 <= Len(s) /\ SubSeq(s, i, i + Len(p) - 1) = p
contains(s, p) == \E i \in 1..(Len(s) + 1) : MatchAt(s, p, i)

UpperLetters == "ABCDEFGHIJKLMNOPQRSTUVWXYZ"
LowerLetters == "abcdefghijklmnopqrstuvwxyz"
Digits == "0123456789"
IsLowerCh(c) == Len(c) = 1 /\ Positions(LowerLetters, c) # {}
IsUpperCh(c) == Len(c) = 1 /\ Positions(UpperLetters, c) # {}
IsAlphaCh(c) == IsLowerCh(c) \/ IsUpperCh(c)
IsDigitCh(c) == Len(c) = 1 /\ Positions(Digits, c) # {}
IsWordCh(c) == IsAlphaCh(c) \/ IsDigitCh(c) \/ c = "_"
IsSpaceCh(c) == c \in {" ", "\t", "\n", "\r", "\f"}

LowerCh(c) == IF IsUpperCh(c) THEN Ch(LowerLetters, SetMin(Positions(UpperLetters, c))) ELSE c

RECURSIVE LowerRange(_, _, _)
LowerRange(s, lo, hi) ==
    IF lo > hi THEN ""
    ELSE IF lo = hi THEN LowerCh(Ch(s, lo))
    ELSE LET mid == (lo + hi) \div 2
         IN LowerRange(s, lo, mid) \o LowerRange(s, mid + 1, hi)

lower(s) == LowerRange(s, 1, Len(s))

isalpha(s) == Len(s) > 0 /\ \A i \in 1..Len(s) : IsAlphaCh(Ch(s, i))

strip(s) ==
    LET keep == {i \in 1..Len(s) : ~IsSpaceCh(Ch(s, i))}
    IN IF keep = {} THEN "" ELSE SubSeq(s, SetMin(keep), SetMax(keep))

lstrip(s, chars) ==
    LET keep == {i \in 1..Len(s) : Ch(s, i) \notin chars}
    IN IF keep = {} THEN "" ELSE SubSeq(s, SetMin(keep), Len(s))

rstrip(s, chars) ==
    LET keep == {i \in 1..Len(s) : Ch(s, i) \notin chars}
    IN IF keep = {} THEN "" ELSE SubSeq(s, 1, SetMax(keep))

basename(p) ==
    LET sl == Positions(p, "/")
    IN IF sl = {} THEN p ELSE SubSeq(p, SetMax(sl) + 1, Len(p))

\* The k-th smallest element of a set of integers.
Kth(S, k) == CHOOSE e \in S : Cardinality({y \in S : y <= e}) = k

\* str.split(sep) for a one-character separator: the sequence of parts.
split(s, sep) ==
    LET P == Positions(s, sep)
        n == Cardinality(P)
        from(k) == IF k = 1 THEN 1 ELSE Kth(P, k - 1) + 1
        to(k) == IF k = n + 1 THEN Len(s) ELSE Kth(P, k) - 1
    IN [k \in 1..(n + 1) |-> SubSeq(s, from(k), to(k))]

RECURSIVE join(_, _)
join(parts, sep) ==
    IF Len(parts) = 0 THEN ""
    ELSE IF Len(parts) = 1 THEN parts[1]
    ELSE parts[1] \o sep \o join(Tail(parts), sep)

\* posixpath.normpath: the component stack after reading comps.
RECURSIVE NormComps(_, _, _)
NormComps(comps, acc, absolute) ==
    IF Len(comps) = 0 THEN acc
    ELSE LET c == Head(comps)
             rest == Tail(comps)
         IN IF c = "" \/ c = "." THEN NormComps(rest, acc, absolute)
            ELSE IF c # ".." THEN NormComps(rest, Append(acc, c), absolute)
            ELSE IF Len(acc) > 0 /\ acc[Len(acc)] # ".."
                 THEN NormComps(rest, SubSeq(acc, 1, Len(acc) - 1), absolute)
            ELSE IF Len(acc) = 0 /\ absolute THEN NormComps(rest, acc, absolute)
            ELSE NormComps(rest, Append(acc, c), absolute)

normpath(path) ==
    IF path = "" THEN "."
    ELSE LET absolute == startswith(path, "/")
             slashes == IF ~absolute THEN ""
                        ELSE IF startswith(path, "//") /\ ~startswith(path, "///") THEN "//"
                        ELSE "/"
             body == join(NormComps(split(path, "/"), <<>>, absolute), "/")
             res == slashes \o body
         IN IF res = "" THEN "." ELSE res

SeqToSet(q) == {q[i] : i \in 1..Len(q)}
Drop(q, n) == SubSeq(q, n + 1, Len(q))
NoneStr == [some |-> FALSE, val |-> ""]
Some(v) == [some |-> TRUE, val |-> v]

(***************************************************************************)
(* shell.py (tokenizer, segment splitter, wrapper stripper, short options) *)
(* is imported by hook.py and rules_git.py; it is modelled from the        *)
(* component contracts of the design document, sections 4.1 to 4.3.        *)
(* The backquote cannot be written in a TLA+ string: it is outside the     *)
(* alphabet of the model.                                                  *)
(***************************************************************************)
TokStart == [ok |-> TRUE, toks |-> <<>>, cur |-> "", has |-> FALSE, mode |-> "n", esc |-> FALSE]

\* One character of quote-aware word splitting: single quotes are literal,
\* double quotes escape only the double quote and the backslash, a backslash
\* outside quotes escapes the next character.
TokStep(st, c) ==
    IF st.mode = "s" THEN
        IF c = "'" THEN [st EXCEPT !.mode = "n"] ELSE [st EXCEPT !.cur = @ \o c]
    ELSE IF st.mode = "d" THEN
        IF st.esc THEN
            [st EXCEPT !.cur = IF c \in {"\"", "\\"} THEN @ \o c ELSE @ \o "\\" \o c,
                       !.esc = FALSE]
        ELSE IF c = "\\" THEN [st EXCEPT !.esc = TRUE]
        ELSE IF c = "\"" THEN [st EXCEPT !.mode = "n"]
        ELSE [st EXCEPT !.cur = @ \o c]
    ELSE IF st.esc THEN [st EXCEPT !.cur = @ \o c, !.esc = FALSE, !.has = TRUE]
    ELSE IF c = "\\" THEN [st EXCEPT !.esc = TRUE, !.has = TRUE]
    ELSE IF c = "'" THEN [st EXCEPT !.mode = "s", !.has = TRUE]
    ELSE IF c = "\"" THEN [st EXCEPT !.mode = "d", !.has = TRUE]
    ELSE IF IsSpaceCh(c) THEN
        IF st.has THEN [st EXCEPT !.toks = Append(@, st.cur), !.cur = "", !.has = FALSE]
        ELSE st
    ELSE [st EXCEPT !.cur = @ \o c, !.has = TRUE]

\* The scan of s[lo..hi] from state st, halving the range so that the
\* evaluation depth stays logarithmic in the length of the text.
RECURSIVE TokScan(_, _, _, _)
TokScan(st, s, lo, hi) ==
    IF lo > hi THEN st
    ELSE IF lo = hi THEN TokStep(st, Ch(s, lo))
    ELSE LET mid == (lo + hi) \div 2
             left == TokScan(st, s, lo, mid)
         IN IF left.ok THEN TokScan(left, s, mid + 1, hi) ELSE left

\* _shlex_split: [ok |-> FALSE] is the None of an unbalanced quote or escape.
_shlex_split(segment) ==
    LET st == TokScan(TokStart, segment, 1, Len(segment))
    IN IF st.mode # "n" \/ st.esc THEN [ok |-> FALSE, toks |-> <<>>]
       ELSE [ok |-> TRUE, toks |-> IF st.has THEN Append(st.toks, st.cur) ELSE st.toks]

SplitStart == [segs |-> <<>>, cur |-> "", mode |-> "n", esc |-> FALSE, depth |-> 0, bad |-> FALSE]

SplitStep(st, c) ==
    IF st.esc THEN [st EXCEPT !.cur = @ \o c, !.esc = FALSE]
    ELSE IF st.mode = "s" THEN
        [st EXCEPT !.cur = @ \o c, !.mode = IF c = "'" THEN "n" ELSE @]
    ELSE IF st.mode = "d" THEN
        [st EXCEPT !.cur = @ \o c,
                   !.mode = IF c = "\"" THEN "n" ELSE @,
                   !.esc = (c = "\\")]
    ELSE IF c = "\\" THEN [st EXCEPT !.cur = @ \o c, !.esc = TRUE]
    ELSE IF c = "'" THEN [st EXCEPT !.cur = @ \o c, !.mode = "s"]
    ELSE IF c = "\"" THEN [st EXCEPT !.cur = @ \o c, !.mode = "d"]
    ELSE IF c \in {"(", "{"} THEN [st EXCEPT !.cur = @ \o c, !.depth = @ + 1]
    ELSE IF c \in {")", "}"} THEN
        [st EXCEPT !.cur = @ \o c,
                   !.depth = IF @ > 0 THEN @ - 1 ELSE 0,
                   !.bad = @ \/ st.depth = 0]
    ELSE IF c \in {";", "|", "&", "\n"} /\ st.depth = 0 THEN
        [st EXCEPT !.segs = IF st.cur = "" THEN @ ELSE Append(@, st.cur), !.cur = ""]
    ELSE [st EXCEPT !.cur = @ \o c]

RECURSIVE SplitScan(_, _, _, _)
SplitScan(st, s, lo, hi) ==
    IF lo > hi THEN st
    ELSE IF lo = hi THEN SplitStep(st, Ch(s, lo))
    ELSE LET mid == (lo + hi) \div 2
             left == SplitScan(st, s, lo, mid)
         \* the test only makes the left half be evaluated before the right one
         IN IF left.depth >= 0 THEN SplitScan(left, s, mid + 1, hi) ELSE left

\* _split_shell_commands: the segments between top-level ; && || | newline &,
\* or the whole line as one segment when the grouping cannot be scanned.
_split_shell_commands(command) ==
    LET st == SplitScan(SplitStart, command, 1, Len(command))
    IN IF st.mode # "n" \/ st.esc \/ st.depth # 0 \/ st.bad THEN <<command>>
       ELSE IF st.cur = "" THEN st.segs ELSE Append(st.segs, st.cur)

PassThroughWrappers == {"sudo", "command", "builtin", "nice", "time", "nohup"}

\* Options (and, after env, assignments) that follow a wrapper's name.
RECURSIVE StripWrapperArgs(_, _)
StripWrapperArgs(tokens, isEnv) ==
    IF Len(tokens) = 0 THEN tokens
    ELSE LET tok == tokens[1]
         IN IF tok = "--" THEN Drop(tokens, 1)
            ELSE IF isEnv /\ tok = "-u" THEN StripWrapperArgs(Drop(tokens, 2), isEnv)
            ELSE IF startswith(tok, "-") /\ Len(tok) > 1 THEN StripWrapperArgs(Drop(tokens, 1), isEnv)
            ELSE IF isEnv /\ contains(tok, "=") THEN StripWrapperArgs(Drop(tokens, 1), isEnv)
            ELSE tokens

\* _strip_wrappers: every step removes at least one token, so it ends.
RECURSIVE _strip_wrappers(_)
_strip_wrappers(tokens) ==
    IF Len(tokens) = 0 THEN tokens
    ELSE IF tokens[1] \in PassThroughWrappers
         THEN _strip_wrappers(StripWrapperArgs(Drop(tokens, 1), FALSE))
    ELSE IF tokens[1] = "env"
         THEN _strip_wrappers(StripWrapperArgs(Drop(tokens, 1), TRUE))
    ELSE tokens

\* _short_opts: the letters of the clustered short options of tokens.
_short_opts(tokens) ==
    UNION {{Ch(tokens[i], j) : j \in 2..Len(tokens[i])} :
           i \in {k \in 1..Len(tokens) :
                    /\ startswith(tokens[k], "-")
                    /\ ~startswith(tokens[k], "--")}}

(***************************************************************************)
(* rules_git.py                                                            *)
(***************************************************************************)
_REASON_GIT_CHECKOUT_DOUBLE_DASH ==
    "git checkout -- discards uncommitted changes permanently. Use 'git stash' first."
_REASON_GIT_CHECKOUT_REF_DOUBLE_DASH ==
    "git checkout <ref> -- <path> overwrites working tree. Use 'git stash' first."
_REASON_GIT_RESTORE ==
    "git restore discards uncommitted changes. Use 'git stash' or 'git diff' first."
_REASON_GIT_RESTORE_WORKTREE ==
    "git restore --worktree discards uncommitted changes permanently."
_REASON_GIT_RESET_HARD ==
    "git reset --hard destroys uncommitted changes. Use 'git stash' first."
_REASON_GIT_RESET_MERGE == "git reset --merge can lose uncommitted changes."
_REASON_GIT_CLEAN_FORCE ==
    "git clean -f removes untracked files permanently. Review with 'git clean -n' first."
_REASON_GIT_PUSH_FORCE ==
    "Force push can destroy remote history. Use --force-with-lease if necessary."
_REASON_GIT_STASH_DROP ==
    "git stash drop permanently deletes stashed changes. List stashes first with 'git stash list'."
_REASON_GIT_STASH_CLEAR == "git stash clear permanently deletes ALL stashed changes."
_REASON_GIT_CHECKOUT_BRANCH ==
    "git checkout <branch> switches branches. Branch switching is not allowed."
_REASON_GIT_CHECKOUT_CREATE ==
    "git checkout -b creates a new branch. Branch creation is not allowed."
_REASON_GIT_SWITCH == "git switch changes branches. Branch switching is not allowed."
_REASON_GIT_SWITCH_CREATE ==
    "git switch -c creates a new branch. Branch creation is not allowed."
_REASON_GIT_BRANCH_CREATE ==
    "git branch <name> creates a new branch. Branch creation is not allowed."
_REASON_GIT_BRANCH_DELETE ==
    "git branch -d deletes a branch. Branch deletion is not allowed."
_REASON_GIT_REBASE == "git rebase rewrites commit history. Rebase is not allowed."
_REASON_GIT_COMMIT_AMEND ==
    "git commit --amend rewrites commit history. Amend is not allowed."
_REASON_GIT_TAG_DELETE == "git tag -d deletes a tag. Tag deletion is not allowed."

opts_with_value ==
    {"-c", "-C", "--exec-path", "--git-dir", "--namespace", "--super-prefix", "--work-tree"}
opts_no_value ==
    {"-p", "-P", "-h", "--help", "--no-pager", "--paginate", "--version", "--bare",
     "--no-replace-objects", "--literal-pathspecs", "--noglob-pathspecs", "--icase-pathspecs"}

\* GitOptionScan with the value of -C, -c, --git-dir ... not skipped.
RECURSIVE GitOptionScanValueNotSkipped(_, _)
GitOptionScanValueNotSkipped(tokens, i) ==
    IF i > Len(tokens) THEN i
    ELSE LET tok == tokens[i]
         IN IF tok = "--" THEN i + 1
            ELSE IF ~startswith(tok, "-") \/ tok = "-" THEN i
            ELSE GitOptionScanValueNotSkipped(tokens, i + 1)

\* The while loop of _git_subcommand_and_rest: the index (1-based) at which
\* the scan of the global options stops.
RECURSIVE GitOptionScan(_, _)
GitOptionScan(tokens, i) ==
    IF i > Len(tokens) THEN i
    ELSE LET tok == tokens[i]
         IN IF tok = "--" THEN i + 1
            ELSE IF ~startswith(tok, "-") \/ tok = "-" THEN i
            ELSE IF tok \in opts_no_value THEN GitOptionScan(tokens, i + 1)
            ELSE IF tok \in opts_with_value THEN GitOptionScan(tokens, i + 2)
            \* --opt and --opt=value take one token, whether opt takes a value or not
            ELSE IF startswith(tok, "--") THEN GitOptionScan(tokens, i + 1)
            \* -Crepo, -cname=value and any other short option take one token
            ELSE GitOptionScan(tokens, i + 1)

\* _git_subcommand_and_rest: sub = "" stands for None (the caller tests "not sub").
_git_subcommand_and_rest(tokens) ==
    IF Len(tokens) = 0 \/ lower(tokens[1]) # "git" THEN [sub |-> "", rest |-> <<>>]
    ELSE LET i == GitOptionScan(tokens, 2)
         IN IF i > Len(tokens) THEN [sub |-> "", rest |-> <<>>]
            ELSE [sub |-> tokens[i], rest |-> Drop(tokens, i)]

IndexOf(q, v) == SetMin({i \in 1..Len(q) : q[i] = v})

\* GitCheckout that looks for -b and --orphan in the arguments as written.
GitCheckoutAsWritten(rest, rest_lower) ==
    IF "--" \in SeqToSet(rest) THEN
        IF IndexOf(rest, "--") = 1 THEN _REASON_GIT_CHECKOUT_DOUBLE_DASH
        ELSE _REASON_GIT_CHECKOUT_REF_DOUBLE_DASH
    ELSE IF "-b" \in SeqToSet(rest) \/ "--orphan" \in SeqToSet(rest)
         THEN _REASON_GIT_CHECKOUT_CREATE
    ELSE IF \E i \in 1..Len(rest) : ~startswith(rest[i], "-") \/ rest[i] = "-"
         THEN _REASON_GIT_CHECKOUT_BRANCH
    ELSE ""

GitCheckout(rest, rest_lower) ==
    IF "--" \in SeqToSet(rest) THEN
        IF IndexOf(rest, "--") = 1 THEN _REASON_GIT_CHECKOUT_DOUBLE_DASH
        ELSE _REASON_GIT_CHECKOUT_REF_DOUBLE_DASH
    ELSE IF "-b" \in SeqToSet(rest_lower) \/ "--orphan" \in SeqToSet(rest_lower)
         THEN _REASON_GIT_CHECKOUT_CREATE
    ELSE IF \E i \in 1..Len(rest) : ~startswith(rest[i], "-") \/ rest[i] = "-"
         THEN _REASON_GIT_CHECKOUT_BRANCH
    ELSE ""

GitSwitch(rest_lower) ==
    IF "-h" \in SeqToSet(rest_lower) \/ "--help" \in SeqToSet(rest_lower) THEN ""
    ELSE IF "-c" \in SeqToSet(rest_lower) \/ "--create" \in SeqToSet(rest_lower)
         THEN _REASON_GIT_SWITCH_CREATE
    ELSE _REASON_GIT_SWITCH

\* GitRestore with the --staged test ahead of the --worktree test.
GitRestoreStagedFirst(rest_lower) ==
    IF {"-h", "--help", "--version"} \cap SeqToSet(rest_lower) # {} THEN ""
    ELSE IF "--staged" \in SeqToSet(rest_lower) THEN ""
    ELSE IF "--worktree" \in SeqToSet(rest_lower) THEN _REASON_GIT_RESTORE_WORKTREE
    ELSE _REASON_GIT_RESTORE

GitRestore(rest_lower) ==
    IF {"-h", "--help", "--version"} \cap SeqToSet(rest_lower) # {} THEN ""
    ELSE IF "--worktree" \in SeqToSet(rest_lower) THEN _REASON_GIT_RESTORE_WORKTREE
    ELSE IF "--staged" \in SeqToSet(rest_lower) THEN ""
    ELSE _REASON_GIT_RESTORE

GitReset(rest_lower) ==
    IF "--hard" \in SeqToSet(rest_lower) THEN _REASON_GIT_RESET_HARD
    ELSE IF "--merge" \in SeqToSet(rest_lower) THEN _REASON_GIT_RESET_MERGE
    ELSE ""

GitClean(rest_lower, short) ==
    IF "--force" \in SeqToSet(rest_lower) \/ "f" \in short THEN _REASON_GIT_CLEAN_FORCE
    ELSE ""

\* GitPush with --force-with-lease taking precedence over an explicit force.
GitPushLeaseWins(rest_lower, short) ==
    IF /\ "--force" \in SeqToSet(rest_lower) \/ "f" \in short
       /\ ~\E i \in 1..Len(rest_lower) : startswith(rest_lower[i], "--force-with-lease")
    THEN _REASON_GIT_PUSH_FORCE
    ELSE ""

GitPush(rest_lower, short) ==
    LET has_force_with_lease ==
            \E i \in 1..Len(rest_lower) : startswith(rest_lower[i], "--force-with-lease")
        has_force == "--force" \in SeqToSet(rest_lower) \/ "f" \in short
    IN IF has_force /\ ~has_force_with_lease THEN _REASON_GIT_PUSH_FORCE
       ELSE IF "--force" \in SeqToSet(rest_lower) /\ has_force_with_lease
            THEN _REASON_GIT_PUSH_FORCE
       ELSE IF "f" \in short /\ has_force_with_lease THEN _REASON_GIT_PUSH_FORCE
       ELSE ""

\* GitBranch looking for -d and -D only as tokens of their own.
GitBranchWholeTokens(rest, short) ==
    IF "-D" \in SeqToSet(rest) \/ "-d" \in SeqToSet(rest) THEN _REASON_GIT_BRANCH_DELETE
    ELSE IF Len(rest) = 0 \/ \A i \in 1..Len(rest) : startswith(rest[i], "-") THEN ""
    ELSE _REASON_GIT_BRANCH_CREATE

GitBranch(rest, short) ==
    IF "-D" \in SeqToSet(rest) \/ "D" \in short \/ "-d" \in SeqToSet(rest) \/ "d" \in short
    THEN _REASON_GIT_BRANCH_DELETE
    ELSE IF Len(rest) = 0 \/ \A i \in 1..Len(rest) : startswith(rest[i], "-") THEN ""
    ELSE _REASON_GIT_BRANCH_CREATE

GitStash(rest_lower) ==
    IF Len(rest_lower) = 0 THEN ""
    ELSE IF rest_lower[1] = "drop" THEN _REASON_GIT_STASH_DROP
    ELSE IF rest_lower[1] = "clear" THEN _REASON_GIT_STASH_CLEAR
    ELSE ""

GitRebase(rest_lower) ==
    IF "-h" \in SeqToSet(rest_lower) \/ "--help" \in SeqToSet(rest_lower) THEN ""
    ELSE _REASON_GIT_REBASE

GitCommit(rest_lower) ==
    IF "--amend" \in SeqToSet(rest_lower) THEN _REASON_GIT_COMMIT_AMEND ELSE ""

GitTag(rest_lower, short) ==
    IF "-d" \in SeqToSet(rest_lower) \/ "--delete" \in SeqToSet(rest_lower) \/ "d" \in short
    THEN _REASON_GIT_TAG_DELETE
    ELSE ""

\* _analyze_git: the reason of the denial, "" for None.
_analyze_git(tokens) ==
    LET rules(sub, rest, rest_lower, short) ==
            IF sub = "checkout" THEN GitCheckout(rest, rest_lower)
            ELSE IF sub = "switch" THEN GitSwitch(rest_lower)
            ELSE IF sub = "restore" THEN GitRestore(rest_lower)
            ELSE IF sub = "reset" THEN GitReset(rest_lower)
            ELSE IF sub = "clean" THEN GitClean(rest_lower, short)
            ELSE IF sub = "push" THEN GitPush(rest_lower, short)
            ELSE IF sub = "branch" THEN GitBranch(rest, short)
            ELSE IF sub = "stash" THEN GitStash(rest_lower)
            ELSE IF sub = "rebase" THEN GitRebase(rest_lower)
            ELSE IF sub = "commit" THEN GitCommit(rest_lower)
            ELSE IF sub = "tag" THEN GitTag(rest_lower, short)
            ELSE ""
        split_off(sr) ==
            IF sr.sub = "" THEN ""
            ELSE rules(lower(sr.sub), sr.rest,
                       [i \in 1..Len(sr.rest) |-> lower(sr.rest[i])], _short_opts(sr.rest))
    IN split_off(_git_subcommand_and_rest(tokens))

(***************************************************************************)
(* rules_sensitive.py                                                      *)
(***************************************************************************)
_REASON_SENSITIVE_READ ==
    "Reading sensitive files is not allowed. This path may contain credentials or API keys."

_SENSITIVE_DIRS == {".ssh", ".config/gh", ".gemini", ".config/opencode", ".cursor", ".codex"}
_SENSITIVE_FILES == {".api_keys", ".gitconfig", ".claude/.credentials.json", ".claude/.claude.json"}
_READ_COMMANDS ==
    {"cat", "less", "more", "head", "tail", "bat", "batcat", "view", "strings", "xxd",
     "hexdump", "od", "tac", "nl"}
flags_with_value == {"-n", "-c", "-q", "--bytes", "--lines"}

\* _normalize_home_path keeping the user name of a /home/<user>/ path.
_normalize_home_pathKeepsUser(path) ==
    IF path = "~" THEN Some("")
    ELSE IF startswith(path, "~/") THEN Some(normpath(Drop(path, 2)))
    ELSE IF path = "$HOME" \/ path = "${HOME}" THEN Some("")
    ELSE IF startswith(path, "$HOME/") THEN Some(normpath(Drop(path, 6)))
    ELSE IF startswith(path, "${HOME}/") THEN Some(normpath(Drop(path, 8)))
    ELSE IF startswith(path, "/home/") THEN Some(normpath(Drop(path, 6)))
    ELSE NoneStr

\* _normalize_home_path: the home-relative form, or none when not under home.
_normalize_home_path(path) ==
    IF path = "~" THEN Some("")
    ELSE IF startswith(path, "~/") THEN Some(normpath(Drop(path, 2)))
    ELSE IF path = "$HOME" \/ path = "${HOME}" THEN Some("")
    ELSE IF startswith(path, "$HOME/") THEN Some(normpath(Drop(path, 6)))
    ELSE IF startswith(path, "${HOME}/") THEN Some(normpath(Drop(path, 8)))
    ELSE IF startswith(path, "/home/") THEN
        LET parts == split(path, "/")
            rest == join(Drop(parts, 3), "/")
        IN IF Len(parts) >= 3 THEN Some(IF rest # "" THEN normpath(rest) ELSE "")
           ELSE NoneStr
    ELSE NoneStr

_is_sensitive_path(path) ==
    \E normalized \in {_normalize_home_path(path)} :
        IF ~normalized.some THEN FALSE
        ELSE IF normalized.val \in _SENSITIVE_FILES THEN TRUE
        ELSE \E sensitive_dir \in _SENSITIVE_DIRS :
                \/ normalized.val = sensitive_dir
                \/ startswith(normalized.val, sensitive_dir \o "/")

\* The for loop of _extract_file_targets over tokens[i..].
RECURSIVE ExtractTargets(_, _, _, _, _)
ExtractTargets(tokens, i, after_double_dash, skip_next, targets) ==
    IF i > Len(tokens) THEN targets
    ELSE LET tok == tokens[i]
         IN IF skip_next THEN ExtractTargets(tokens, i + 1, after_double_dash, FALSE, targets)
            ELSE IF after_double_dash
                 THEN ExtractTargets(tokens, i + 1, TRUE, FALSE, Append(targets, tok))
            ELSE IF tok = "--" THEN ExtractTargets(tokens, i + 1, TRUE, FALSE, targets)
            ELSE IF startswith(tok, "-") /\ tok # "-"
                 THEN ExtractTargets(tokens, i + 1, FALSE, tok \in flags_with_value, targets)
            ELSE ExtractTargets(tokens, i + 1, FALSE, FALSE, Append(targets, tok))

_extract_file_targets(tokens) == ExtractTargets(tokens, 2, FALSE, FALSE, <<>>)

\* _analyze_sensitive_read: the reason of the denial, "" for None.
_analyze_sensitive_read(tokens) ==
    IF Len(tokens) = 0 THEN ""
    ELSE IF lower(tokens[1]) \notin _READ_COMMANDS THEN ""
    ELSE IF \E t \in SeqToSet(_extract_file_targets(tokens)) : _is_sensitive_path(t)
         THEN _REASON_SENSITIVE_READ
    ELSE ""

(***************************************************************************)
(* rules_rm.py is imported by hook.py; the delete engine is modelled from  *)
(* its contract in section 4.5 of the design document.                     *)
(***************************************************************************)
_REASON_RM_RF == "rm -rf is destructive. List files first, then delete individually."

IsTempPath(p) ==
    \E n \in {normpath(p)} :
        n \in {"/tmp", "/var/tmp"} \/ startswith(n, "/tmp/") \/ startswith(n, "/var/tmp/")

IsTmpdirVarPath(p) ==
    \/ p \in {"$TMPDIR", "${TMPDIR}"}
    \/ /\ startswith(p, "$TMPDIR/") \/ startswith(p, "${TMPDIR}/")
       /\ ".." \notin SeqToSet(split(p, "/"))

IsRelativePath(p) ==
    /\ p # ""
    /\ Ch(p, 1) \notin {"/", "~", "$"}
    /\ \E n \in {normpath(p)} : n # "." /\ ~startswith(n, "..")

RmTargetAllowed(target, allow_tmpdir_var, cwd, strict) ==
    \/ IsTempPath(target)
    \/ allow_tmpdir_var /\ IsTmpdirVarPath(target)
    \/ ~strict /\ cwd.known /\ IsTempPath(cwd.path) /\ IsRelativePath(target)

\* _analyze_rm: the reason of the denial, "" for None.
_analyze_rm(tokens, allow_tmpdir_var, cwd, strict) ==
    LET args == Drop(tokens, 1)
        dd == {i \in 1..Len(args) : args[i] = "--"}
        destructive(optEnd) ==
            \E opts \in {SubSeq(args, 1, optEnd)} : \E short \in {_short_opts(opts)} :
                /\ {"r", "R"} \cap short # {} \/ "--recursive" \in SeqToSet(opts)
                /\ "f" \in short \/ "--force" \in SeqToSet(opts)
                /\ \E k \in 1..Len(args) :
                      /\ k > optEnd + 1 \/ (k <= optEnd /\ ~startswith(args[k], "-"))
                      /\ ~RmTargetAllowed(args[k], allow_tmpdir_var, cwd, strict)
    IN IF destructive(IF dd = {} THEN Len(args) ELSE SetMin(dd) - 1) THEN _REASON_RM_RF
       ELSE ""

(***************************************************************************)
(* hook.py                                                                 *)
(***************************************************************************)
_MAX_RECURSION_DEPTH == 5
_STRICT_SUFFIX == " [strict mode - disable with: unset SAFETY_NET_STRICT]"
_REASON_RECURSION_LIMIT == "Command analysis recursion limit reached."
_REASON_UNPARSABLE == "Unable to parse shell command safely." \o _STRICT_SUFFIX
_REASON_UNPARSABLE_DASH_C == "Unable to parse shell -c wrapper safely." \o _STRICT_SUFFIX
_REASON_ONE_LINER == "Cannot safely analyze interpreter one-liners." \o _STRICT_SUFFIX
_REASON_GIT_BRANCH_DELETE_FORCE ==
    "git branch -D force-deletes without merge check. Use -d for safety."

Shells == {"bash", "sh", "zsh", "dash", "ksh"}
Interpreters == {"python", "python3", "node", "ruby", "perl"}

RECURSIVE StripSubstitutionOpen(_)
StripSubstitutionOpen(tok) ==
    IF startswith(tok, "$(") THEN StripSubstitutionOpen(Drop(tok, 2)) ELSE tok

_normalize_cmd_token(token) ==
    LET tok1 == StripSubstitutionOpen(lower(strip(token)))
        tok2 == lstrip(tok1, {"\\", "(", "{", "["})
        tok3 == rstrip(tok2, {")", "}", "]", ";"})
    IN basename(tok3)

IsDashCCluster(tok) ==
    /\ startswith(tok, "-")
    /\ Len(tok) > 1
    /\ isalpha(Drop(tok, 1))
    /\ LET letters == {Ch(tok, j) : j \in 2..Len(tok)}
       IN "c" \in letters /\ letters \subseteq {"c", "l", "i", "s"}

\* The first of the positions at which a loop over tokens[1:] stops, 0 if
\* there is none.
FirstStop(stops) == IF stops = {} THEN 0 ELSE SetMin(stops)

ShellStop(tok) == tok = "--" \/ tok = "-c" \/ IsDashCCluster(tok)
CodeStop(tok) == tok \in {"--", "-c", "-e"}

ArgAfter(tokens, i) ==
    IF i = 0 \/ tokens[i] = "--" THEN NoneStr
    ELSE IF i + 1 <= Len(tokens) THEN Some(tokens[i + 1])
    ELSE NoneStr

_extract_dash_c_arg(tokens) ==
    ArgAfter(tokens, FirstStop({i \in 2..Len(tokens) : ShellStop(tokens[i])}))

_has_shell_dash_c(tokens) ==
    \E i \in {FirstStop({k \in 2..Len(tokens) : ShellStop(tokens[k])})} :
        i # 0 /\ tokens[i] # "--"

_extract_pythonish_code_arg(tokens) ==
    ArgAfter(tokens, FirstStop({i \in 2..Len(tokens) : CodeStop(tokens[i])}))

\* Regular-expression pieces over a text t: \b after (or before) a word
\* character, a run of \s, and the class [^\n;|&].
WordEndsAt(t, i) == i > Len(t) \/ ~IsWordCh(Ch(t, i))
WordStartsAt(t, i) == i = 1 \/ ~IsWordCh(Ch(t, i - 1))
SkipSpaces(t, i) ==
    LET ns == {j \in i..Len(t) : ~IsSpaceCh(Ch(t, j))}
    IN IF ns = {} THEN Len(t) + 1 ELSE SetMin(ns)
SameStatement(t, a, b) == \A j \in a..b : Ch(t, j) \notin {"\n", ";", "|", "&"}
SpaceDashAt(t, k) == k + 1 <= Len(t) /\ IsSpaceCh(Ch(t, k)) /\ Ch(t, k + 1) = "-"

\* \s-(?:[a-z]*r[a-z]*f|[a-z]*f[a-z]*r)\b at k
CombinedFlagsAt(t, k) ==
    /\ SpaceDashAt(t, k)
    /\ \E e \in (k + 3)..Len(t) :
          /\ \A j \in (k + 2)..e : IsLowerCh(Ch(t, j))
          /\ WordEndsAt(t, e + 1)
          /\ \/ Ch(t, e) = "f" /\ \E j \in (k + 2)..(e - 1) : Ch(t, j) = "r"
             \/ Ch(t, e) = "r" /\ \E j \in (k + 2)..(e - 1) : Ch(t, j) = "f"

\* \s<flag>\b at k
FlagAt(t, k, flag) ==
    /\ k <= Len(t) /\ IsSpaceCh(Ch(t, k))
    /\ MatchAt(t, flag, k + 1)
    /\ WordEndsAt(t, k + 1 + Len(flag))

\* \s<first>\b[^\n;|&]*\s<second>\b at k
FlagPairAt(t, k, first, second) ==
    /\ FlagAt(t, k, first)
    /\ \E m \in (k + 1 + Len(first))..Len(t) :
          /\ FlagAt(t, m, second)
          /\ SameStatement(t, k + 1 + Len(first), m - 1)

\* (?<![\w/\\])(?:/[^\s'\";|&]+/)?rm with rm at position r
RmHeadAt(t, r) ==
    LET free(p) == p = 1 \/ ~(IsWordCh(Ch(t, p - 1)) \/ Ch(t, p - 1) \in {"/", "\\"})
    IN /\ MatchAt(t, "rm", r)
       /\ \/ free(r)
          \/ \E p \in 1..(r - 3) :
                /\ free(p) /\ Ch(t, p) = "/" /\ Ch(t, r - 1) = "/"
                /\ \A j \in (p + 1)..(r - 2) :
                      ~IsSpaceCh(Ch(t, j)) /\ Ch(t, j) \notin {"'", "\"", ";", "|", "&"}

RmRecursiveForceIn(t) ==
    \E r \in {i \in 1..Len(t) : MatchAt(t, "rm", i)} :
        /\ RmHeadAt(t, r)
        /\ WordEndsAt(t, r + 2)
        /\ \E k \in {i \in (r + 2)..Len(t) : SpaceDashAt(t, i)} :
              /\ SameStatement(t, r + 2, k - 1)
              /\ \/ CombinedFlagsAt(t, k)
                 \/ FlagPairAt(t, k, "-r", "-f")
                 \/ FlagPairAt(t, k, "-f", "-r")
                 \/ FlagPairAt(t, k, "--recursive", "--force")
                 \/ FlagPairAt(t, k, "--force", "--recursive")

\* \bgit\s+<word> at g: the position after <word>, 0 when there is no match.
GitWordAt(t, g, word) ==
    LET a == g + 3
        b == SkipSpaces(t, a)
    IN IF MatchAt(t, "git", g) /\ WordStartsAt(t, g) /\ b > a /\ MatchAt(t, word, b)
       THEN b + Len(word) ELSE 0

\* \bgit\s+push\s+-f\b
GitPushShortForceIn(t) ==
    \E g \in 1..Len(t) :
        LET a == GitWordAt(t, g, "push")
            b == SkipSpaces(t, a)
        IN a # 0 /\ b > a /\ MatchAt(t, "-f", b) /\ WordEndsAt(t, b + 2)

\* \bgit\s+restore\b
GitRestoreIn(t) ==
    \E g \in 1..Len(t) :
        LET a == GitWordAt(t, g, "restore") IN a # 0 /\ WordEndsAt(t, a)

\* _dangerous_in_text: the reason, "" for None.
_dangerous_in_text(text) ==
    LET t == lower(text)
    IN IF RmRecursiveForceIn(t) THEN _REASON_RM_RF
       ELSE IF contains(t, "git reset --hard") THEN _REASON_GIT_RESET_HARD
       ELSE IF contains(t, "git reset --merge") THEN _REASON_GIT_RESET_MERGE
       ELSE IF contains(t, "git clean -f") \/ contains(t, "git clean --force")
            THEN _REASON_GIT_CLEAN_FORCE
       ELSE IF /\ contains(t, "git push --force") \/ GitPushShortForceIn(t)
               /\ ~contains(t, "--force-with-lease")
            THEN _REASON_GIT_PUSH_FORCE
       ELSE IF contains(t, "git branch -D") /\ ~contains(t, "git branch -d")
            THEN _REASON_GIT_BRANCH_DELETE_FORCE
       ELSE IF contains(t, "git stash drop") THEN _REASON_GIT_STASH_DROP
       ELSE IF contains(t, "git stash clear") THEN _REASON_GIT_STASH_CLEAR
       ELSE IF contains(t, "git checkout --") THEN _REASON_GIT_CHECKOUT_DOUBLE_DASH
       ELSE IF /\ GitRestoreIn(t)
               /\ ~contains(t, "--staged") /\ ~contains(t, "--help") /\ ~contains(t, "--version")
            THEN IF contains(t, "--worktree") THEN _REASON_GIT_RESTORE_WORKTREE
                 ELSE _REASON_GIT_RESTORE
       ELSE ""

CwdBuiltins == {"cd", "pushd", "popd"}

RECURSIVE DropGroupOpeners(_)
DropGroupOpeners(tokens) ==
    IF Len(tokens) > 0 /\ tokens[1] \in {"{", "(", "$("}
    THEN DropGroupOpeners(Drop(tokens, 1)) ELSE tokens

\* ^\s*(?:\$\(\s*)?[\(\{]*\s*(?:command\s+|builtin\s+)?(?:cd|pushd|popd)(?:\s|$)
\* with IGNORECASE; every optional piece is followed by pieces that cannot
\* start the way it does, so the match is the greedy one.
CwdRegexMatches(segment) ==
    \E t \in {lower(segment)} :
    \E p1 \in {SkipSpaces(t, 1)} :
    \E p2 \in {IF MatchAt(t, "$(", p1) THEN SkipSpaces(t, p1 + 2) ELSE p1} :
    \E p3 \in {SetMin({j \in p2..(Len(t) + 1) : j = Len(t) + 1 \/ Ch(t, j) \notin {"(", "{"}})} :
    \E p4 \in {SkipSpaces(t, p3)} :
    \E p5 \in {IF (MatchAt(t, "command", p4) \/ MatchAt(t, "builtin", p4))
                    /\ SkipSpaces(t, p4 + 7) > p4 + 7
                 THEN SkipSpaces(t, p4 + 7) ELSE p4} :
    \E w \in CwdBuiltins :
        /\ MatchAt(t, w, p5)
        /\ p5 + Len(w) > Len(t) \/ IsSpaceCh(Ch(t, p5 + Len(w)))

\* _segment_changes_cwd that leaves the group openers in place.
_segment_changes_cwdOpenersKept(segment) ==
    \E sp \in {_shlex_split(segment)} :
    \E t1 \in {_strip_wrappers(sp.toks)} :
    \E t2 \in {IF Len(t1) > 0 /\ lower(t1[1]) = "builtin" THEN Drop(t1, 1) ELSE t1} :
        IF sp.ok /\ Len(t2) > 0 THEN _normalize_cmd_token(t2[1]) \in CwdBuiltins
        ELSE CwdRegexMatches(segment)

_segment_changes_cwd(segment) ==
    \E sp \in {_shlex_split(segment)} :
    \E t1 \in {_strip_wrappers(DropGroupOpeners(sp.toks))} :
    \E t2 \in {IF Len(t1) > 0 /\ lower(t1[1]) = "builtin" THEN Drop(t1, 1) ELSE t1} :
        IF sp.ok /\ Len(t2) > 0 THEN _normalize_cmd_token(t2[1]) \in CwdBuiltins
        ELSE CwdRegexMatches(segment)

\* A result of _analyze_segment or _analyze_command: None, or (segment, reason).
NoViolation == [deny |-> FALSE, segment |-> "", reason |-> ""]
Violation(segment, reason) == [deny |-> TRUE, segment |-> segment, reason |-> reason]
\* (segment, reason) if reason else None
ViolationIf(segment, reason) == IF reason # "" THEN Violation(segment, reason) ELSE NoViolation

NoCwd == [known |-> FALSE, path |-> ""]
KnownCwd(path) == [known |-> TRUE, path |-> path]

\* tokens after _shlex_split and _strip_wrappers (hook.py lines 182 to 193)
SegmentTokens(segment) == _strip_wrappers(_shlex_split(segment).toks)

\* The first reason that is not None in a run of checks, each of which
\* returns when it finds one: "" when none does.
FirstReason(reasons) ==
    IF \A i \in 1..Len(reasons) : reasons[i] = "" THEN ""
    ELSE reasons[SetMin({i \in 1..Len(reasons) : reasons[i] # ""})]

\* SegmentHead with the ceiling tested one call too late (depth > 5).
SegmentHeadLateCeiling(segment, depth, strict) ==
    LET return(res) == [kind |-> "return", res |-> res, cmd_str |-> ""]
        shell(tokens, cmd_str) ==
            IF cmd_str.some THEN
                IF depth > _MAX_RECURSION_DEPTH
                THEN return(Violation(segment, _REASON_RECURSION_LIMIT))
                ELSE [kind |-> "call", res |-> NoViolation, cmd_str |-> cmd_str.val]
            ELSE IF strict /\ _has_shell_dash_c(tokens)
                 THEN return(Violation(segment, _REASON_UNPARSABLE_DASH_C))
            ELSE [kind |-> "continue", res |-> NoViolation, cmd_str |-> ""]
        stripped(tokens) ==
            IF Len(tokens) = 0 THEN return(NoViolation)
            ELSE IF _normalize_cmd_token(tokens[1]) \in Shells
                 THEN shell(tokens, _extract_dash_c_arg(tokens))
            ELSE [kind |-> "continue", res |-> NoViolation, cmd_str |-> ""]
        parsed(sp) ==
            IF ~sp.ok THEN
                IF strict THEN return(Violation(segment, _REASON_UNPARSABLE))
                ELSE return(ViolationIf(segment, _dangerous_in_text(segment)))
            ELSE stripped(_strip_wrappers(sp.toks))
    IN parsed(_shlex_split(segment))

\* SegmentHead with the test of strict negated for an unparsable segment.
SegmentHeadStrictNegated(segment, depth, strict) ==
    LET return(res) == [kind |-> "return", res |-> res, cmd_str |-> ""]
        shell(tokens, cmd_str) ==
            IF cmd_str.some THEN
                IF depth >= _MAX_RECURSION_DEPTH
                THEN return(Violation(segment, _REASON_RECURSION_LIMIT))
                ELSE [kind |-> "call", res |-> NoViolation, cmd_str |-> cmd_str.val]
            ELSE IF strict /\ _has_shell_dash_c(tokens)
                 THEN return(Violation(segment, _REASON_UNPARSABLE_DASH_C))
            ELSE [kind |-> "continue", res |-> NoViolation, cmd_str |-> ""]
        stripped(tokens) ==
            IF Len(tokens) = 0 THEN return(NoViolation)
            ELSE IF _normalize_cmd_token(tokens[1]) \in Shells
                 THEN shell(tokens, _extract_dash_c_arg(tokens))
            ELSE [kind |-> "continue", res |-> NoViolation, cmd_str |-> ""]
        parsed(sp) ==
            IF ~sp.ok THEN
                IF ~strict THEN return(Violation(segment, _REASON_UNPARSABLE))
                ELSE return(ViolationIf(segment, _dangerous_in_text(segment)))
            ELSE stripped(_strip_wrappers(sp.toks))
    IN parsed(_shlex_split(segment))

\* SegmentHead with an unparsable segment left to the heuristic in strict mode too.
SegmentHeadHeuristicWhenStrict(segment, depth, strict) ==
    LET return(res) == [kind |-> "return", res |-> res, cmd_str |-> ""]
        shell(tokens, cmd_str) ==
            IF cmd_str.some THEN
                IF depth >= _MAX_RECURSION_DEPTH
                THEN return(Violation(segment, _REASON_RECURSION_LIMIT))
                ELSE [kind |-> "call", res |-> NoViolation, cmd_str |-> cmd_str.val]
            ELSE IF strict /\ _has_shell_dash_c(tokens)
                 THEN return(Violation(segment, _REASON_UNPARSABLE_DASH_C))
            ELSE [kind |-> "continue", res |-> NoViolation, cmd_str |-> ""]
        stripped(tokens) ==
            IF Len(tokens) = 0 THEN return(NoViolation)
            ELSE IF _normalize_cmd_token(tokens[1]) \in Shells
                 THEN shell(tokens, _extract_dash_c_arg(tokens))
            ELSE [kind |-> "continue", res |-> NoViolation, cmd_str |-> ""]
        parsed(sp) ==
            IF ~sp.ok THEN
                return(ViolationIf(segment, _dangerous_in_text(segment)))
            ELSE stripped(_strip_wrappers(sp.toks))
    IN parsed(_shlex_split(segment))

\* _analyze_segment up to the recursive call (lines 182 to 212): it returns
\* a result, calls _analyze_command on the inline script, or goes on.
SegmentHead(segment, depth, strict) ==
    LET return(res) == [kind |-> "return", res |-> res, cmd_str |-> ""]
        shell(tokens, cmd_str) ==
            IF cmd_str.some THEN
                IF depth >= _MAX_RECURSION_DEPTH
                THEN return(Violation(segment, _REASON_RECURSION_LIMIT))
                ELSE [kind |-> "call", res |-> NoViolation, cmd_str |-> cmd_str.val]
            ELSE IF strict /\ _has_shell_dash_c(tokens)
                 THEN return(Violation(segment, _REASON_UNPARSABLE_DASH_C))
            ELSE [kind |-> "continue", res |-> NoViolation, cmd_str |-> ""]
        stripped(tokens) ==
            IF Len(tokens) = 0 THEN return(NoViolation)
            ELSE IF _normalize_cmd_token(tokens[1]) \in Shells
                 THEN shell(tokens, _extract_dash_c_arg(tokens))
            ELSE [kind |-> "continue", res |-> NoViolation, cmd_str |-> ""]
        parsed(sp) ==
            IF ~sp.ok THEN
                IF strict THEN return(Violation(segment, _REASON_UNPARSABLE))
                ELSE return(ViolationIf(segment, _dangerous_in_text(segment)))
            ELSE stripped(_strip_wrappers(sp.toks))
    IN parsed(_shlex_split(segment))

\* One round of the embedded-command loop (lines 259 to 276) at token i.
EmbeddedAt(tokens, i, allow_tmpdir_var, cwd, strict) ==
    LET round(cmd, after) ==
            FirstReason(<<IF cmd = "rm"
                          THEN _analyze_rm(<<"rm">> \o after, allow_tmpdir_var, cwd, strict)
                          ELSE "",
                          IF cmd = "git" THEN _analyze_git(<<"git">> \o after) ELSE "",
                          _analyze_sensitive_read(<<cmd>> \o after)>>)
    IN round(_normalize_cmd_token(tokens[i]), Drop(tokens, i))

\* The embedded-command loop (lines 258 to 276): the first reason found.
EmbeddedScan(tokens, allow_tmpdir_var, cwd, strict) ==
    FirstReason([k \in 1..(Len(tokens) - 1) |->
                    EmbeddedAt(tokens, k + 1, allow_tmpdir_var, cwd, strict)])

\* \bTMPDIR= in the segment (line 227)
SetsTmpdir(segment) ==
    \E i \in 1..Len(segment) : MatchAt(segment, "TMPDIR=", i) /\ WordStartsAt(segment, i)

\* OneLinerCheck without the strict-mode denial.
OneLinerCheckNoStrict(tokens, head, strict) ==
    LET check(code) ==
            IF head \in Interpreters /\ code.some THEN _dangerous_in_text(code.val) ELSE ""
    IN check(_extract_pythonish_code_arg(tokens))

\* lines 214 to 225: the interpreter one-liner check; "" when it goes on.
OneLinerCheck(tokens, head, strict) ==
    LET check(code) ==
            IF head \in Interpreters /\ code.some
            THEN FirstReason(<<_dangerous_in_text(code.val),
                               IF strict THEN _REASON_ONE_LINER ELSE "">>)
            ELSE ""
    IN check(_extract_pythonish_code_arg(tokens))

\* _analyze_segment from line 214 on, for a segment whose tokens are not
\* empty: the reason of its denial, "" for None.  The delete and git
\* engines return their answer, a reason or None, for a segment they head
\* (lines 229 to 250); the other checks return only a reason they find.
SegmentTail(segment, cwd, strict) ==
    LET engines(tokens, head, allow_tmpdir_var) ==
            IF head = "busybox" /\ Len(tokens) >= 2 /\ _normalize_cmd_token(tokens[2]) = "rm"
            THEN _analyze_rm(<<"rm">> \o Drop(tokens, 2), allow_tmpdir_var, cwd, strict)
            ELSE IF head = "git" THEN _analyze_git(<<"git">> \o Drop(tokens, 1))
            ELSE IF head = "rm"
                 THEN _analyze_rm(<<"rm">> \o Drop(tokens, 1), allow_tmpdir_var, cwd, strict)
            ELSE FirstReason(<<_analyze_sensitive_read(tokens),
                               EmbeddedScan(tokens, allow_tmpdir_var, cwd, strict),
                               _dangerous_in_text(segment)>>)
        tail(tokens, head) ==
            FirstReason(<<OneLinerCheck(tokens, head, strict),
                          engines(tokens, head, ~SetsTmpdir(segment))>>)
        stripped(tokens) == tail(tokens, _normalize_cmd_token(tokens[1]))
    IN stripped(SegmentTokens(segment))

(***************************************************************************)
(* The analysis of one command line as a machine: the call stack of        *)
(* _analyze_command, one frame per running call.                           *)
(***************************************************************************)
VARIABLES
    inp,        \* how the command line was put together (not read by the code)
    envelope,   \* the shape of the JSON read from stdin
    command,    \* tool_input["command"] when it is a string
    cwd,        \* the caller-supplied working directory
    strict,     \* _strict_mode()
    pc,         \* "main" before the analysis, "run" during it, "done" after
    stack,      \* the frames of the running _analyze_command calls
    verdict,    \* what main() got back from _analyze_command
    trace,      \* the calls of _analyze_segment made so far
    classified, \* the answers of the sensitive-read engine for the spellings of a path
    output,     \* what main() printed
    exit_status \* what main() returned, Running before it returns

vars == <<inp, envelope, command, cwd, strict, pc, stack, verdict, trace, classified, output, exit_status>>

\* The frame of _analyze_command(command, depth, cwd): its segments, the
\* index of the segment of the current round, and effective_cwd.
NewFrame(text, depth, dir) ==
    [text |-> text, segs |-> _split_shell_commands(text), i |-> 1, depth |-> depth,
     effective_cwd |-> dir, waiting |-> FALSE, done |-> FALSE, result |-> NoViolation]

Top == stack[Len(stack)]
Exhausted(f) == f.i > Len(f.segs)
Returns(f) == f.done \/ Exhausted(f)

\* LoopBody without the early return: the loop goes on after a violation
\* and the last one found is returned.
LoopBodyNoShortCircuit(f, analyzed) ==
    [f EXCEPT !.i = @ + 1,
              !.waiting = FALSE,
              !.result = IF analyzed.deny THEN analyzed ELSE @,
              !.effective_cwd =
                  IF f.effective_cwd.known /\ _segment_changes_cwd(f.segs[f.i])
                  THEN NoCwd ELSE @]

\* The rest of a round of the for loop once the segment's result is known
\* (lines 297 to 301).
LoopBody(f, analyzed) ==
    IF analyzed.deny THEN [f EXCEPT !.done = TRUE, !.result = analyzed, !.waiting = FALSE]
    ELSE [f EXCEPT !.i = @ + 1,
                   !.waiting = FALSE,
                   !.effective_cwd =
                       IF f.effective_cwd.known /\ _segment_changes_cwd(f.segs[f.i])
                       THEN NoCwd ELSE @]

Call(f) == [segment |-> f.segs[f.i], depth |-> f.depth, cwd |-> f.effective_cwd,
            level |-> Len(stack)]

\* The envelope as json.load left it: the type of the value read, and for an
\* object the tool name and the types of tool_input and of its command.
WellFormed == [json |-> "dict", tool_name |-> "Bash", tool_input |-> "dict", command |-> "str"]

NoOutput == [permissionDecision |-> "", reason |-> ""]
\* The printed hookSpecificOutput: the decision and the reason its message carries.
DenyOutput(reason) == [permissionDecision |-> "deny", reason |-> reason]

Running == -1

_INVALID_INPUT == "Invalid hook input."
_INVALID_STRUCTURE == "Invalid hook input structure."

\* The tests with tool_input looked at before the tool name.
InputCheckToolInputFirst(e, cmd, strict_) ==
    IF e.json = "invalid"
    THEN [ret |-> TRUE, reason |-> IF strict_ THEN _INVALID_INPUT ELSE ""]
    ELSE IF e.json # "dict"
    THEN [ret |-> TRUE, reason |-> IF strict_ THEN _INVALID_STRUCTURE ELSE ""]
    ELSE IF e.tool_input # "dict"
    THEN [ret |-> TRUE, reason |-> IF strict_ THEN _INVALID_STRUCTURE ELSE ""]
    ELSE IF e.tool_name # "Bash"
    THEN [ret |-> TRUE, reason |-> ""]
    ELSE IF e.command # "str" \/ strip(cmd) = ""
    THEN [ret |-> TRUE, reason |-> ""]
    ELSE [ret |-> FALSE, reason |-> ""]

\* main(), lines 333 to 398: the tests made before the analysis. ret says
\* main returns here, reason is what it prints first ("" for nothing).
InputCheck(e, cmd, strict_) ==
    IF e.json = "invalid"
    THEN [ret |-> TRUE, reason |-> IF strict_ THEN _INVALID_INPUT ELSE ""]
    ELSE IF e.json # "dict"
    THEN [ret |-> TRUE, reason |-> IF strict_ THEN _INVALID_STRUCTURE ELSE ""]
    ELSE IF e.tool_name # "Bash"
    THEN [ret |-> TRUE, reason |-> ""]
    ELSE IF e.tool_input # "dict"
    THEN [ret |-> TRUE, reason |-> IF strict_ THEN _INVALID_STRUCTURE ELSE ""]
    ELSE IF e.command # "str" \/ strip(cmd) = ""
    THEN [ret |-> TRUE, reason |-> ""]
    ELSE [ret |-> FALSE, reason |-> ""]

\* main(), lines 331 to 405: a malformed envelope, another tool or a blank
\* command returns without analysis.
Main ==
    /\ pc = "main"
    /\ \E chk \in {InputCheck(envelope, command, strict)} :
          IF chk.ret
          THEN /\ pc' = "done" /\ stack' = <<>>
               /\ output' = (IF chk.reason # "" THEN DenyOutput(chk.reason) ELSE NoOutput)
               /\ exit_status' = 0
          ELSE /\ pc' = "run" /\ stack' = <<NewFrame(command, 0, cwd)>>
               /\ UNCHANGED <<output, exit_status>>
    /\ UNCHANGED <<inp, envelope, command, cwd, strict, classified, verdict, trace>>

\* A round of the loop whose segment is analyzed without a recursive call.
AnalyzeSegment ==
    /\ pc = "run" /\ Len(stack) > 0
    /\ ~Returns(Top) /\ ~Top.waiting
    /\ \E f \in {Top} : \E h \in {SegmentHead(f.segs[f.i], f.depth, strict)} :
          /\ h.kind # "call"
          /\ stack' = [stack EXCEPT ![Len(stack)] =
                          LoopBody(f, IF h.kind = "return" THEN h.res
                                      ELSE ViolationIf(f.segs[f.i],
                                               SegmentTail(f.segs[f.i], f.effective_cwd, strict)))]
          /\ trace' = Append(trace, Call(f))
    /\ UNCHANGED <<inp, envelope, command, cwd, strict, classified, pc, verdict, output, exit_status>>

\* ShellUnwrap with the inline script analyzed at the caller's depth.
ShellUnwrapSameDepth ==
    /\ pc = "run" /\ Len(stack) > 0
    /\ ~Returns(Top) /\ ~Top.waiting
    /\ \E f \in {Top} : \E h \in {SegmentHead(f.segs[f.i], f.depth, strict)} :
          /\ h.kind = "call"
          /\ stack' = Append([stack EXCEPT ![Len(stack)].waiting = TRUE],
                             NewFrame(h.cmd_str, f.depth, f.effective_cwd))
          /\ trace' = Append(trace, Call(f))
    /\ UNCHANGED <<inp, envelope, command, cwd, strict, classified, pc, verdict, output, exit_status>>

\* A round whose segment is a shell with an inline script: the call of
\* _analyze_command at depth + 1 (lines 203 to 208).
ShellUnwrap ==
    /\ pc = "run" /\ Len(stack) > 0
    /\ ~Returns(Top) /\ ~Top.waiting
    /\ \E f \in {Top} : \E h \in {SegmentHead(f.segs[f.i], f.depth, strict)} :
          /\ h.kind = "call"
          /\ stack' = Append([stack EXCEPT ![Len(stack)].waiting = TRUE],
                             NewFrame(h.cmd_str, f.depth + 1, f.effective_cwd))
          /\ trace' = Append(trace, Call(f))
    /\ UNCHANGED <<inp, envelope, command, cwd, strict, classified, pc, verdict, output, exit_status>>

\* CommandReturn that reports the calling segment, not the segment of the
\* inline script, when the inner call found a violation.
CommandReturnOuterSegment ==
    /\ pc = "run" /\ Len(stack) >= 2
    /\ Returns(Top)
    /\ \E analyzed \in {Top.result} : \E f \in {stack[Len(stack) - 1]} :
          stack' = [SubSeq(stack, 1, Len(stack) - 1) EXCEPT ![Len(stack) - 1] =
                       LoopBody(f, IF analyzed.deny THEN Violation(f.segs[f.i], analyzed.reason)
                                   ELSE ViolationIf(f.segs[f.i],
                                            SegmentTail(f.segs[f.i], f.effective_cwd, strict)))]
    /\ UNCHANGED <<inp, envelope, command, cwd, strict, classified, pc, verdict, trace, output, exit_status>>

\* The inner _analyze_command returns to the segment that called it: a
\* violation is passed on (lines 209, 210), otherwise the segment goes on
\* from line 214; then the caller's round ends.
CommandReturn ==
    /\ pc = "run" /\ Len(stack) >= 2
    /\ Returns(Top)
    /\ \E analyzed \in {Top.result} : \E f \in {stack[Len(stack) - 1]} :
          stack' = [SubSeq(stack, 1, Len(stack) - 1) EXCEPT ![Len(stack) - 1] =
                       LoopBody(f, IF analyzed.deny THEN analyzed
                                   ELSE ViolationIf(f.segs[f.i],
                                            SegmentTail(f.segs[f.i], f.effective_cwd, strict)))]
    /\ UNCHANGED <<inp, envelope, command, cwd, strict, classified, pc, verdict, trace, output, exit_status>>

\* The outermost _analyze_command returns to main() (lines 405 to 425).
Finish ==
    /\ pc = "run" /\ Len(stack) = 1
    /\ Returns(Top)
    /\ verdict' = Top.result
    /\ output' = (IF Top.result.deny THEN DenyOutput(Top.result.reason) ELSE NoOutput)
    /\ exit_status' = 0
    /\ pc' = "done"
    /\ stack' = <<>>
    /\ UNCHANGED <<inp, envelope, command, cwd, strict, classified, trace>>

Next == Main \/ AnalyzeSegment \/ ShellUnwrap \/ CommandReturn \/ Finish

\* The state before main() runs on a command line.
Start(c) ==
    /\ envelope = WellFormed
    /\ command = c
    /\ output = NoOutput
    /\ exit_status = Running
    /\ pc = "main"
    /\ stack = <<>>
    /\ verdict = NoViolation
    /\ trace = <<>>
    /\ classified = <<>>

Allowed == pc = "done" /\ ~verdict.deny
Denied == pc = "done" /\ verdict.deny
DeniedWith(reason) == Denied /\ verdict.reason = reason

\* Words joined by single spaces.
Words(ws) == join(ws, " ")

\* text inside double quotes: the backslash and the double quote escaped
RECURSIVE EscapeRange(_, _, _)
EscapeRange(s, lo, hi) ==
    IF lo > hi THEN ""
    ELSE IF lo = hi THEN (IF Ch(s, lo) \in {"\\", "\""} THEN "\\" \o Ch(s, lo) ELSE Ch(s, lo))
    ELSE LET mid == (lo + hi) \div 2
         IN EscapeRange(s, lo, mid) \o EscapeRange(s, mid + 1, hi)

\* A shell word whose value is script: single quotes when script has none.
Quoted(script) ==
    IF Positions(script, "'") = {} THEN "'" \o script \o "'"
    ELSE "\"" \o EscapeRange(script, 1, Len(script)) \o "\""

\* n nested shell -c invocations around script.
RECURSIVE Nested(_, _, _)
Nested(n, shell, script) ==
    IF n = 0 THEN script ELSE shell \o " -c " \o Quoted(Nested(n - 1, shell, script))

\* All sequences over S of length at most n.
RECURSIVE SeqsUpTo(_, _)
SeqsUpTo(S, n) ==
    IF n = 0 THEN {<<>>}
    ELSE LET shorter == SeqsUpTo(S, n - 1)
         IN shorter \cup {Append(q, x) : q \in shorter, x \in S}

SpaceCat(a, b) == IF a = "" THEN b ELSE IF b = "" THEN a ELSE a \o " " \o b

Cwds == {NoCwd, KnownCwd("/tmp/w")}

(***************************************************************************)
(* git reset: a reset command with global options, in several contexts     *)
(***************************************************************************)
GitGlobalOptions ==
    {"", "-C repo", "-Crepo", "-c user.name=x", "-cname=value", "--git-dir=repo/.git",
     "--git-dir repo/.git", "--work-tree /w", "--namespace=ns", "--no-pager", "-p --bare"}
HardArgs == {"--hard", "--hard HEAD~1", "-q --hard", "HEAD~1 --hard"}
OtherResetArgs == {"", "HEAD~1", "--soft", "--merge"}
ResetContexts == {"alone", "pipe", "shc", "wrapped", "shpipe", "afterdeny", "deep"}

InContext(ctx, c) ==
    CASE ctx = "alone" -> c
      [] ctx = "pipe" -> "echo ok | " \o c
      [] ctx = "shc" -> Nested(1, "sh", c)
      [] ctx = "wrapped" -> "sudo env VAR=1 " \o c
      [] ctx = "shpipe" -> "bash -lc " \o Quoted("echo ok | " \o c)
      [] ctx = "afterdeny" -> "git push --force ; " \o c
      [] ctx = "deep" -> Nested(_MAX_RECURSION_DEPTH + 1, "sh", c)
      [] ctx = "embedded" -> "echo $( " \o c \o " )"
      [] ctx = "oneliner" -> "python -c " \o Quoted("import os; os.system(\"" \o c \o "\")")
      [] ctx = "unparsable" -> c \o " 'unterminated"

ResetCommand(d) == InContext(d.ctx, SpaceCat(SpaceCat("git", d.glob), SpaceCat("reset", d.args)))

InitReset ==
    /\ inp \in [ctx : ResetContexts, glob : GitGlobalOptions, args : HardArgs \cup OtherResetArgs]
    /\ cwd \in Cwds
    /\ strict \in BOOLEAN
    /\ Start(ResetCommand(inp))

SpecReset == InitReset /\ [][Next]_vars

MaxPushArgs == 2
PushArgs == {"--force", "-f", "--force-with-lease", "--force-with-lease=origin/main", "origin"}
EnginePaths == {"alone", "wrapped", "shc", "embedded"}
TextPaths == {"oneliner", "unparsable"}

InitPush ==
    /\ inp \in [ctx : EnginePaths \cup TextPaths, args : SeqsUpTo(PushArgs, MaxPushArgs)]
    /\ cwd = NoCwd
    \* strict mode denies every one-liner and unparsable segment: the textual
    \* paths are judged on their content in normal mode only
    /\ strict \in IF inp.ctx \in TextPaths THEN {FALSE} ELSE BOOLEAN
    /\ Start(InContext(inp.ctx, SpaceCat("git push", Words(inp.args))))

SpecPush == InitPush /\ [][Next]_vars

HasForce == \E i \in 1..Len(inp.args) : inp.args[i] \in {"--force", "-f"}
HasLease ==
    \E i \in 1..Len(inp.args) :
        inp.args[i] \in {"--force-with-lease", "--force-with-lease=origin/main"}

\* C2 as stated: on every analysis path a push with a lease and no force is
\* allowed, a push with a force and no lease is denied, and a push with
\* both is denied.
PushRuleOnEveryPath ==
    pc = "done" =>
        /\ HasLease /\ ~HasForce => Allowed
        /\ HasForce /\ ~HasLease => Denied
        /\ HasForce /\ HasLease => Denied

\* C2 amended: where the git engine judges the push (head of a segment,
\* behind wrappers, inside a shell -c script, or an embedded git token) it
\* is denied, with the force-push reason, exactly when --force or -f is
\* present, with a lease or without; where only the textual heuristic reads
\* it (an interpreter one-liner, an unparsable segment) it is denied in
\* normal mode exactly when --force or -f directly follows "git push" and no
\* --force-with-lease occurs in the text.
PushRuleByPath ==
    pc = "done" =>
        /\ inp.ctx \in EnginePaths =>
              /\ Denied <=> HasForce
              /\ Denied => verdict.reason = _REASON_GIT_PUSH_FORCE
        /\ inp.ctx \in TextPaths =>
              /\ Denied <=> /\ Len(inp.args) > 0
                            /\ inp.args[1] \in {"--force", "-f"}
                            /\ ~HasLease
              /\ Denied => verdict.reason = _REASON_GIT_PUSH_FORCE

PushRuleByPathWitness ==
    /\ DeniedWith(_REASON_GIT_PUSH_FORCE)
    /\ inp.ctx = "shc" /\ inp.args = <<"--force-with-lease", "-f">>

(***************************************************************************)
(* git branch: deletion, creation and listing                               *)
(***************************************************************************)
MaxBranchArgs == 2
DeletionOptions == {"-d", "-D", "-Dv", "-vd"}
ListingOptions == {"-v", "-a", "--merged"}
BranchNames == {"feature"}

InitBranch ==
    /\ inp \in [ctx : {"alone", "wrapped", "shc", "pipe"},
                args : SeqsUpTo(DeletionOptions \cup ListingOptions \cup BranchNames,
                                MaxBranchArgs)]
    /\ cwd = NoCwd
    /\ strict \in BOOLEAN
    /\ Start(InContext(inp.ctx, SpaceCat("git branch", Words(inp.args))))

SpecBranch == InitBranch /\ [][Next]_vars

HasDeletion == \E i \in 1..Len(inp.args) : inp.args[i] \in DeletionOptions
HasName == \E i \in 1..Len(inp.args) : inp.args[i] \in BranchNames
HasFlag == \E i \in 1..Len(inp.args) : inp.args[i] \in DeletionOptions \cup ListingOptions

\* C3: a git branch command with -d or -D, alone or in a cluster of short
\* options, is denied as a deletion; without one, a branch name with no
\* flags is denied as a creation; a bare git branch and one with only flags
\* are allowed.
BranchRule ==
    pc = "done" =>
        /\ HasDeletion => DeniedWith(_REASON_GIT_BRANCH_DELETE)
        /\ ~HasDeletion /\ HasName /\ ~HasFlag => DeniedWith(_REASON_GIT_BRANCH_CREATE)
        /\ ~HasDeletion /\ ~HasName => Allowed

BranchRuleWitness ==
    /\ DeniedWith(_REASON_GIT_BRANCH_DELETE)
    /\ inp.ctx = "shc" /\ inp.args = <<"-Dv", "feature">>

(***************************************************************************)
(* Sensitive paths: the spellings of a path under the home directory       *)
(***************************************************************************)
MaxComps == 3
PathComps ==
    {".ssh", "id_rsa", ".gitconfig", ".config", "gh", ".claude", ".credentials.json",
     "settings.json", ".bashrc", "..", "."}
HomePrefixes == {"~/", "$HOME/", "${HOME}/", "/home/alice/", "/home/bob/", "/home//"}
OtherPrefixes == {"", "/", "./", "/root/", "/etc/", "home/alice/", "$HOMES/", "~alice/", "/Home/alice/"}

\* The answer of the sensitive-read engine for a read of path.
SensitiveRead(path) == _analyze_sensitive_read(<<"cat", path>>) = _REASON_SENSITIVE_READ

\* The path suffix s whose spellings are classified.
Suffix == join(inp.comps, "/")

InitPaths ==
    /\ inp \in [comps : SeqsUpTo(PathComps, MaxComps)]
    /\ envelope = WellFormed
    /\ output = NoOutput
    /\ exit_status = Running
    /\ command = ""
    /\ cwd = NoCwd
    /\ strict = FALSE
    /\ pc = "paths"
    /\ stack = <<>>
    /\ verdict = NoViolation
    /\ trace = <<>>
    /\ classified = <<>>

\* The engine is asked about every spelling of the path suffix.
ClassifySpellings ==
    /\ pc = "paths"
    /\ classified' = [p \in HomePrefixes \cup OtherPrefixes |-> SensitiveRead(p \o Suffix)]
    /\ pc' = "classified"
    /\ UNCHANGED <<inp, envelope, command, cwd, strict, stack, verdict, trace, output, exit_status>>

NextPaths == ClassifySpellings

SpecPaths == InitPaths /\ [][NextPaths]_vars

EqualsOrUnder(n, entries) == \E e \in entries : n = e \/ startswith(n, e \o "/")

\* C4 as stated: the home spellings of a suffix are classified alike,
\* sensitive exactly when the normalized suffix equals or lies under one of
\* the sensitive entries, directories and files; other paths never are.
SpellingsClassifiedByEntry ==
    pc = "classified" =>
        /\ \A p \in HomePrefixes :
              classified[p] <=>
                  EqualsOrUnder(normpath(Suffix), _SENSITIVE_DIRS \cup _SENSITIVE_FILES)
        /\ \A p \in OtherPrefixes : ~classified[p]

\* C4 amended: the home spellings of a suffix are classified alike,
\* sensitive exactly when the normalized suffix equals one of the sensitive
\* entries or lies under one of the directory entries; a path under a file
\* entry (.gitconfig/x) is not sensitive; other paths never are.
SpellingsClassifiedAlike ==
    pc = "classified" =>
        /\ \A p \in HomePrefixes :
              classified[p] <=>
                  \/ normpath(Suffix) \in _SENSITIVE_FILES
                  \/ EqualsOrUnder(normpath(Suffix), _SENSITIVE_DIRS)
        /\ \A p \in OtherPrefixes : ~classified[p]

SpellingsClassifiedAlikeWitness ==
    /\ pc = "classified"
    /\ inp.comps = <<".config", "..", ".ssh">>
    /\ \A p \in HomePrefixes : classified[p]

(***************************************************************************)
(* Nested shell -c invocations                                             *)
(***************************************************************************)
MaxNest == 7
NestShells == {"sh", "/bin/bash", "zsh -l"}
\* The innermost scripts with the reason of their denial, "" when allowed.
ScriptReason ==
    [script \in {"git status", "echo ok | cat README", "git reset --hard",
                 "cat ~/.ssh/id_rsa", "git status && rm -rf /"} |->
        CASE script = "git reset --hard" -> _REASON_GIT_RESET_HARD
          [] script = "cat ~/.ssh/id_rsa" -> _REASON_SENSITIVE_READ
          [] script = "git status && rm -rf /" -> _REASON_RM_RF
          [] OTHER -> ""]

InitNest ==
    /\ inp \in [n : 0..MaxNest, shell : NestShells, script : DOMAIN ScriptReason]
    /\ cwd = NoCwd
    /\ strict \in BOOLEAN
    /\ Start(Nested(inp.n, inp.shell, inp.script))

SpecNest == InitNest /\ [][Next]_vars

\* C5: a chain of six or more nested shell -c invocations is denied with the
\* recursion-limit reason whatever the innermost script is; a chain of at
\* most five never gets that reason and is denied exactly when the
\* innermost script is, with the script's reason.
NestCeiling ==
    pc = "done" =>
        /\ inp.n >= _MAX_RECURSION_DEPTH + 1 => DeniedWith(_REASON_RECURSION_LIMIT)
        /\ inp.n <= _MAX_RECURSION_DEPTH =>
              /\ verdict.reason # _REASON_RECURSION_LIMIT
              /\ Denied <=> ScriptReason[inp.script] # ""
              /\ verdict.reason = ScriptReason[inp.script]

NestCeilingWitness ==
    /\ DeniedWith(_REASON_RECURSION_LIMIT)
    /\ inp.n = _MAX_RECURSION_DEPTH + 1 /\ inp.script = "git status"

(***************************************************************************)
(* Command lines of several segments                                       *)
(***************************************************************************)
MaxSegs == 3
Operators == <<" ; ", " && ", " || ", " | ">>
\* The segments with the reason of their denial, "" when allowed.
SegReason ==
    [segment \in {"git status", "git clean -n", "git reset --hard",
                  "sh -c 'git clean -n'", "bash -c 'git stash drop'"} |->
        CASE segment = "git reset --hard" -> _REASON_GIT_RESET_HARD
          [] segment = "bash -c 'git stash drop'" -> _REASON_GIT_STASH_DROP
          [] OTHER -> ""]

\* The segments of inp joined by the operators, taken in turn from rot on.
RECURSIVE Chain(_, _)
Chain(segs, rot) ==
    IF Len(segs) = 1 THEN segs[1]
    ELSE Chain(SubSeq(segs, 1, Len(segs) - 1), rot)
            \o Operators[((Len(segs) + rot) % Len(Operators)) + 1] \o segs[Len(segs)]

InitSegs ==
    /\ inp \in [segs : SeqsUpTo(DOMAIN SegReason, MaxSegs) \ {<<>>},
                rot : 0..(Len(Operators) - 1)]
    /\ cwd = NoCwd
    /\ strict = FALSE
    /\ Start(Chain(inp.segs, inp.rot))

SpecSegs == InitSegs /\ [][Next]_vars

\* The calls of _analyze_segment made by the outermost _analyze_command.
TopCalls == SelectSeq(trace, LAMBDA call : call.level = 1)
Violating == {k \in 1..Len(inp.segs) : SegReason[inp.segs[k]] # ""}
Analyzed(n) ==
    /\ Len(TopCalls) = n
    /\ \A k \in 1..n : strip(TopCalls[k].segment) = inp.segs[k]

\* C6: the segments are analyzed in order whatever operators separate them;
\* the verdict is Deny exactly when some segment violates, with the reason of
\* the earliest violating segment and no segment analyzed after it, and it
\* is Allow only after every segment was analyzed.
FirstViolationWins ==
    pc = "done" =>
        /\ Denied <=> Violating # {}
        /\ Violating # {} =>
              /\ verdict.reason = SegReason[inp.segs[SetMin(Violating)]]
              /\ Analyzed(SetMin(Violating))
        /\ Violating = {} => Analyzed(Len(inp.segs))

FirstViolationWinsWitness ==
    /\ Denied
    /\ Len(inp.segs) = 3 /\ Violating = {2, 3}
    /\ SegReason[inp.segs[2]] # SegReason[inp.segs[3]]
    /\ Len(TopCalls) = 2

(***************************************************************************)
(* The working directory along a command line                              *)
(***************************************************************************)
MaxCwdSegs == 3
\* Segments that change the directory of the line they stand in.
CdSegments == {"cd /etc", "builtin popd", "( pushd src )"}
CwdSegments ==
    {"builtin popd", "( pushd src )", "echo hi", "sh -c 'cd /etc ; echo in'",
     "bash -c 'echo in ; sh -c \"cd /etc ; echo deep\" ; echo back'"}

InitCwd ==
    /\ inp \in [segs : SeqsUpTo(CwdSegments, MaxCwdSegs) \ {<<>>}]
    /\ cwd \in Cwds
    /\ strict = FALSE
    /\ Start(join(inp.segs, " ; "))

SpecCwd == InitCwd /\ [][Next]_vars

ChangesCwd(call) == strip(call.segment) \in CdSegments

\* C7 as stated: after a call with cwd unknown, or of a cd/pushd/popd
\* segment, at any nesting level, every later call has cwd unknown.
CwdUnknownForGood ==
    \A i, j \in 1..Len(trace) :
        (i < j /\ (~trace[i].cwd.known \/ ChangesCwd(trace[i]))) => ~trace[j].cwd.known

\* The call before call j in the same run of _analyze_command, 0 when call j
\* is the first of its run.
Previous(j) ==
    SetMax({0} \cup {i \in 1..(j - 1) :
                        /\ trace[i].level = trace[j].level
                        /\ \A k \in i..j : trace[k].level >= trace[j].level})

\* C7, amended: each run of _analyze_command threads its own directory. The
\* first call of the outermost run has the caller's cwd and the first call
\* of a run on an inline script has the cwd of the segment that holds the
\* script; a later call has the cwd of the call before it in the same run,
\* or unknown when that call was a cd/pushd/popd segment. So within a run
\* and the runs on the inline scripts of its later segments an unknown cwd
\* stays unknown, while a cd inside an inline script leaves the cwd of the
\* enclosing line as it was.
CwdThreadedPerRun ==
    \A j \in 1..Len(trace) :
        \E i \in {Previous(j)} :
            trace[j].cwd =
                IF i # 0 THEN (IF ChangesCwd(trace[i]) THEN NoCwd ELSE trace[i].cwd)
                ELSE IF j = 1 THEN cwd
                ELSE trace[j - 1].cwd

\* A line whose first segment is a cd and whose second holds an inline
\* script: the script and the segment after it are analyzed with cwd unknown.
CwdThreadedPerRunWitness ==
    /\ pc = "done" /\ cwd.known
    /\ Len(inp.segs) = 3 /\ inp.segs[1] = "builtin popd"
    /\ inp.segs[2] = "sh -c 'cd /etc ; echo in'"
    /\ Len(trace) = 5 /\ \A j \in 2..5 : ~trace[j].cwd.known

(***************************************************************************)
(* The segment a Deny names                                                *)
(***************************************************************************)
MaxDenySegs == 2
\* Segments with the segment a Deny names when they violate ("" when they do
\* not) and the inline scripts the analysis unwraps from them.
Offender ==
    [segment \in {"git status", "git reset --hard", "sudo git clean -f",
                  "bash -c 'git status ; git stash drop'",
                  "sh -c 'echo hi' $(rm -rf /)",
                  "python -c \"os.system('git reset --hard')\"",
                  Nested(_MAX_RECURSION_DEPTH + 1, "sh", "git status")} |->
        CASE segment = "git status" -> ""
          [] segment = "bash -c 'git status ; git stash drop'" -> "git stash drop"
          [] segment = Nested(_MAX_RECURSION_DEPTH + 1, "sh", "git status") ->
                Nested(1, "sh", "git status")
          [] OTHER -> segment]
InlineScripts(segment) ==
    CASE segment = "bash -c 'git status ; git stash drop'" -> {"git status ; git stash drop"}
      [] segment = "sh -c 'echo hi' $(rm -rf /)" -> {"echo hi"}
      [] segment = Nested(_MAX_RECURSION_DEPTH + 1, "sh", "git status") ->
            {Nested(k, "sh", "git status") : k \in 1.._MAX_RECURSION_DEPTH}
      [] OTHER -> {}

InitDeny ==
    /\ inp \in [segs : SeqsUpTo(DOMAIN Offender, MaxDenySegs) \ {<<>>},
                rot : 0..(Len(Operators) - 1)]
    /\ cwd = NoCwd
    /\ strict = FALSE
    /\ Start(Chain(inp.segs, inp.rot))

SpecDeny == InitDeny /\ [][Next]_vars

\* The strings the analysis may split: the line and the inline scripts.
AnalyzedTexts == {command} \cup UNION {InlineScripts(inp.segs[k]) : k \in 1..Len(inp.segs)}
Offending == {k \in 1..Len(inp.segs) : Offender[inp.segs[k]] # ""}

\* C8: a Deny has a non-empty reason and a non-empty segment; the segment is
\* one of the segments the splitter makes of the line or of an unwrapped
\* inline script, namely the one judged dangerous, and it is the whole line
\* only when the line is that one segment.
DenyNamesItsSegment ==
    /\ \A k \in 1..Len(stack) :
          stack[k].result.deny => stack[k].result.reason # "" /\ stack[k].result.segment # ""
    /\ Denied =>
          /\ verdict.reason # "" /\ verdict.segment # ""
          /\ \E text \in AnalyzedTexts : verdict.segment \in SeqToSet(_split_shell_commands(text))
          /\ Offending # {} /\ strip(verdict.segment) = Offender[inp.segs[SetMin(Offending)]]
          /\ verdict.segment = command =>
                Len(inp.segs) = 1 /\ Offender[inp.segs[1]] = inp.segs[1]

\* A violation found inside an inline script of the second segment.
DenyNamesItsSegmentWitness ==
    /\ Denied
    /\ Len(inp.segs) = 2 /\ inp.segs[1] = "git status"
    /\ inp.segs[2] = "bash -c 'git status ; git stash drop'"
    /\ strip(verdict.segment) = "git stash drop"

(***************************************************************************)
(* Termination                                                             *)
(***************************************************************************)
\* Shells behind wrappers, and scripts that are blank, safe, dangerous,
\* unparsable, or lines of several segments with a shell of their own.
DeepShells == {"sh", "sudo env X=1 bash"}
DeepScripts ==
    {"", "git status", "rm -rf /", "echo 'unterminated",
     "echo a ; cd /x ; zsh -c 'git status' ; git reset --hard"}

InitDeep ==
    /\ inp \in [n : 0..MaxNest, shell : DeepShells, script : DeepScripts]
    /\ cwd \in Cwds
    /\ strict \in BOOLEAN
    /\ Start(Nested(inp.n, inp.shell, inp.script))

SpecDeep == InitDeep /\ [][Next]_vars

\* What is left to do, as a number that every step makes smaller: a segment
\* still to analyze counts its length plus one, a segment waiting for its
\* inline script counts one (the script is shorter than the segment and its
\* own segments are counted in the frame of the call).
RECURSIVE Weight(_, _)
Weight(segs, from) ==
    IF from > Len(segs) THEN 0 ELSE Len(segs[from]) + 1 + Weight(segs, from + 1)
FrameWeight(f) ==
    IF Returns(f) THEN 0
    ELSE Weight(f.segs, f.i + 1) + (IF f.waiting THEN 1 ELSE Len(f.segs[f.i]) + 1)
RECURSIVE StackWeight(_)
StackWeight(k) == IF k = 0 THEN 0 ELSE FrameWeight(stack[k]) + StackWeight(k - 1)
Variant ==
    CASE pc = "main" -> Len(command) + 3
      [] pc = "run" -> 1 + StackWeight(Len(stack))
      [] OTHER -> 0

\* Some step can be taken: the disjunction of the guards of the actions.
CanStep ==
    \/ pc = "main"
    \/ pc = "run" /\ Len(stack) > 0 /\ ~Returns(Top) /\ ~Top.waiting
    \/ pc = "run" /\ Len(stack) >= 2 /\ Returns(Top)
    \/ pc = "run" /\ Len(stack) = 1 /\ Returns(Top)

\* C9: every analysis ends, with one verdict, Allow or Deny (a Deny with
\* its reason), that no later step changes: until the verdict is there a
\* step can be taken, and every step lowers a natural number.
\* _analyze_command is never more than five recursive calls deep, and a
\* chain of more wrappers ends in a Deny.
AnalysisTerminates ==
    /\ [](pc \in {"main", "run", "done"})
    /\ [](pc # "done" => CanStep)
    /\ [](Variant \in Nat)
    /\ [][Variant' < Variant]_vars
    /\ [](Len(stack) <= _MAX_RECURSION_DEPTH + 1)
    /\ [](pc = "done" =>
            /\ verdict.deny \in BOOLEAN
            /\ verdict.deny => verdict.reason # ""
            /\ inp.n > _MAX_RECURSION_DEPTH => verdict.deny)
    /\ [][pc # "done"]_vars

\* The sixth call of _analyze_command is running and more wrappers remain.
AnalysisTerminatesWitness ==
    /\ pc = "run" /\ Len(stack) = _MAX_RECURSION_DEPTH + 1
    /\ inp.n = MaxNest /\ inp.shell = "sudo env X=1 bash"

(***************************************************************************)
(* Commands embedded in the arguments of a segment                         *)
(***************************************************************************)
SegmentHeads ==
    {"git status", "git log", "rm -f notes.txt", "busybox rm notes.txt",
     "echo", "xargs", "find . -exec"}
EmbeddedCommands == {"git reset --hard", "git stash drop", "rm -rf /", "cat ~/.ssh/id_rsa"}
EmbeddedForms == {"words", "substitution", "shc"}

Embed(form, head, embedded) ==
    CASE form = "words" -> head \o " " \o embedded
      [] form = "substitution" -> head \o " $( " \o embedded \o " )"
      [] form = "shc" -> "sh -c " \o Quoted(head \o " $( " \o embedded \o " )")

InitEmbedded ==
    /\ inp \in {r \in [head : SegmentHeads, embedded : EmbeddedCommands, form : EmbeddedForms] :
                    r.form = "words" => r.head \in {"echo", "xargs", "find . -exec"}}
    /\ cwd = NoCwd
    /\ strict \in BOOLEAN
    /\ Start(Embed(inp.form, inp.head, inp.embedded))

SpecEmbedded == InitEmbedded /\ [][Next]_vars

\* C10: whatever the head of a tokenized segment is, a violation that the
\* delete, git or sensitive-read engine finds from one of its non-head
\* tokens on makes the verdict Deny.
EmbeddedScanOnEveryHead ==
    pc = "done" =>
        \A j \in 1..Len(trace) :
            \E sp \in {_shlex_split(trace[j].segment)} :
            \E tokens \in {_strip_wrappers(sp.toks)} :
                (/\ sp.ok /\ Len(tokens) > 0
                 /\ EmbeddedScan(tokens, ~SetsTmpdir(trace[j].segment), trace[j].cwd, strict) # "")
                    => Denied

(***************************************************************************)
(* Dispatch by the normalized command head                                 *)
(***************************************************************************)
\* The heads of the three engines, each written in several ways.
HeadSpellings ==
    [git |-> {"git", "/usr/bin/git", "GIT", "./Git"},
     rm |-> {"rm", "/bin/rm", "RM", "\\rm"},
     cat |-> {"cat", "/bin/cat", "CAT", "/usr/bin/Cat"}]
\* The arguments tried with each head, with the reason of the denial of the
\* bare lower-case command ("" when it is allowed).
HeadArgs ==
    [git |-> [args \in {"status", "reset --hard"} |->
                 IF args = "reset --hard" THEN _REASON_GIT_RESET_HARD ELSE ""],
     rm |-> [args \in {"-f notes.txt", "-rf /"} |->
                 IF args = "-rf /" THEN _REASON_RM_RF ELSE ""],
     cat |-> [args \in {"README", "~/.ssh/id_rsa"} |->
                 IF args = "~/.ssh/id_rsa" THEN _REASON_SENSITIVE_READ ELSE ""]]
DispatchContexts == {"alone", "pipe", "shc", "wrapped"}

InitDispatch ==
    /\ inp \in {r \in [name : DOMAIN HeadSpellings,
                       head : UNION {HeadSpellings[n] : n \in DOMAIN HeadSpellings},
                       args : UNION {DOMAIN HeadArgs[n] : n \in DOMAIN HeadArgs},
                       ctx : DispatchContexts] :
                   r.head \in HeadSpellings[r.name] /\ r.args \in DOMAIN HeadArgs[r.name]}
    /\ cwd = NoCwd
    /\ strict \in BOOLEAN
    /\ Start(InContext(inp.ctx, inp.head \o " " \o inp.args))

SpecDispatch == InitDispatch /\ [][Next]_vars

\* C11: a head written with a directory prefix or in upper case gets the
\* verdict of the bare lower-case name, for the git, delete and
\* sensitive-read engines alike.
DispatchByNormalizedHead ==
    pc = "done" =>
        /\ Denied <=> HeadArgs[inp.name][inp.args] # ""
        /\ verdict.reason = HeadArgs[inp.name][inp.args]

(***************************************************************************)
(* git restore                                                             *)
(***************************************************************************)
MaxRestoreArgs == 2
RestoreArgs == {"--staged", "--worktree", "-h", "--help", "--version", "file.txt"}

InitRestore ==
    /\ inp \in [ctx : EnginePaths \cup TextPaths, args : SeqsUpTo(RestoreArgs, MaxRestoreArgs)]
    /\ cwd = NoCwd
    /\ strict \in IF inp.ctx \in TextPaths THEN {FALSE} ELSE BOOLEAN
    /\ Start(InContext(inp.ctx, SpaceCat("git restore", Words(inp.args))))

SpecRestore == InitRestore /\ [][Next]_vars

HasArg(a) == \E i \in 1..Len(inp.args) : inp.args[i] = a

\* C12 as stated: on every analysis path a restore is allowed exactly when
\* --staged, -h, --help or --version is among its arguments, and a denied
\* restore with --worktree has the --worktree reason.
RestoreRuleOnEveryPath ==
    pc = "done" =>
        /\ Allowed <=> (HasArg("--staged") \/ HasArg("-h") \/ HasArg("--help")
                            \/ HasArg("--version"))
        /\ (Denied /\ HasArg("--worktree")) => verdict.reason = _REASON_GIT_RESTORE_WORKTREE

\* What the git engine answers for the arguments, and what the textual
\* heuristic answers for a text holding the command.
RestoreByEngine ==
    IF HasArg("-h") \/ HasArg("--help") \/ HasArg("--version") THEN ""
    ELSE IF HasArg("--worktree") THEN _REASON_GIT_RESTORE_WORKTREE
    ELSE IF HasArg("--staged") THEN ""
    ELSE _REASON_GIT_RESTORE
RestoreByText ==
    IF HasArg("--staged") \/ HasArg("--help") \/ HasArg("--version") THEN ""
    ELSE IF HasArg("--worktree") THEN _REASON_GIT_RESTORE_WORKTREE
    ELSE _REASON_GIT_RESTORE

\* C12, amended: a segment headed by git (also behind wrappers) gets the
\* engine's answer: allowed with -h, --help or --version, else denied with
\* the --worktree reason when --worktree is there (with --staged too), else
\* allowed with --staged, else denied.  A one-liner and an unparsable
\* segment get the heuristic's answer: allowed exactly when --staged,
\* --help or --version occurs.  A shell -c segment and a segment with the
\* command embedded get the engine's denial, or else the heuristic's.
RestoreRuleByPath ==
    pc = "done" =>
        verdict.reason =
            CASE inp.ctx \in {"alone", "wrapped"} -> RestoreByEngine
              [] inp.ctx \in {"shc", "embedded"} ->
                    IF RestoreByEngine # "" THEN RestoreByEngine ELSE RestoreByText
              [] inp.ctx \in TextPaths -> RestoreByText

RestoreRuleByPathWitness ==
    /\ DeniedWith(_REASON_GIT_RESTORE_WORKTREE)
    /\ inp.ctx = "wrapped" /\ inp.args = <<"--staged", "--worktree">>

(***************************************************************************)
(* git checkout                                                            *)
(***************************************************************************)
MaxCheckoutArgs == 2
CheckoutArgs == {"--", "-b", "-B", "--orphan", "--orphan=x", "-q", "--quiet", "-", "main"}
CheckoutContexts == {"alone", "wrapped", "pipe", "shc"}

InitCheckout ==
    /\ inp \in [ctx : CheckoutContexts, args : SeqsUpTo(CheckoutArgs, MaxCheckoutArgs)]
    /\ cwd = NoCwd
    /\ strict \in BOOLEAN
    /\ Start(InContext(inp.ctx, SpaceCat("git checkout", Words(inp.args))))

SpecCheckout == InitCheckout /\ [][Next]_vars

HasPositional == \E i \in 1..Len(inp.args) : inp.args[i] \in {"-", "main"}

\* C13 as stated: a checkout is denied exactly when "--", -b or --orphan is
\* among its arguments or one of them is positional; the reason tells a
\* discard from a branch creation from a branch switch.
CheckoutRuleAsWritten ==
    pc = "done" =>
        /\ Denied <=> (HasArg("--") \/ HasArg("-b") \/ HasArg("--orphan") \/ HasPositional)
        /\ Denied =>
              verdict.reason =
                  IF HasArg("--")
                  THEN (IF inp.args[1] = "--" THEN _REASON_GIT_CHECKOUT_DOUBLE_DASH
                        ELSE _REASON_GIT_CHECKOUT_REF_DOUBLE_DASH)
                  ELSE IF HasArg("-b") \/ HasArg("--orphan") THEN _REASON_GIT_CHECKOUT_CREATE
                  ELSE _REASON_GIT_CHECKOUT_BRANCH

\* What the git engine answers for the arguments.
CheckoutByEngine ==
    IF HasArg("--")
    THEN (IF inp.args[1] = "--" THEN _REASON_GIT_CHECKOUT_DOUBLE_DASH
          ELSE _REASON_GIT_CHECKOUT_REF_DOUBLE_DASH)
    ELSE IF HasArg("-b") \/ HasArg("-B") \/ HasArg("--orphan") THEN _REASON_GIT_CHECKOUT_CREATE
    ELSE IF HasPositional THEN _REASON_GIT_CHECKOUT_BRANCH
    ELSE ""

\* C13, amended: -b and --orphan are looked for without regard to letter
\* case, so -B denies too; with that, a segment headed by git gets the
\* answer as stated.  A shell -c segment whose script is the checkout and
\* the engine allows is still denied, as a discard, when the text after
\* "git checkout " starts with "--".
CheckoutRule ==
    pc = "done" =>
        verdict.reason =
            IF CheckoutByEngine # "" \/ inp.ctx # "shc" THEN CheckoutByEngine
            ELSE IF Len(inp.args) > 0 /\ startswith(inp.args[1], "--")
                 THEN _REASON_GIT_CHECKOUT_DOUBLE_DASH
            ELSE ""

CheckoutRuleWitness ==
    /\ DeniedWith(_REASON_GIT_CHECKOUT_CREATE)
    /\ inp.ctx = "alone" /\ inp.args = <<"-q", "-B">>

(***************************************************************************)
(* Interpreter one-liners                                                  *)
(***************************************************************************)
OneLiners == {"python -c", "python3 -u -c", "node -e", "/usr/bin/perl -e", "RUBY -e"}
\* Inline code with the reason the textual heuristic finds in it, "" when
\* it finds none; two of the codes would be denied if read as shell.
CodeReason ==
    [code \in {"print(1)", "os.system(\"git reset --hard\")", "system(\"rm -rf /\")",
               "cat ~/.ssh/id_rsa | git checkout main", "x = 1; sh -c \"git rebase\""} |->
        CASE code = "os.system(\"git reset --hard\")" -> _REASON_GIT_RESET_HARD
          [] code = "system(\"rm -rf /\")" -> _REASON_RM_RF
          [] OTHER -> ""]
\* What follows the code in the segment, with the reason the remaining
\* checks find in it.
AfterCode ==
    [extra \in {"", "$( cat ~/.ssh/id_rsa )"} |->
        IF extra = "" THEN "" ELSE _REASON_SENSITIVE_READ]

InitOneLiner ==
    /\ inp \in [ctx : {"alone", "shc"}, run : OneLiners, code : DOMAIN CodeReason,
                extra : DOMAIN AfterCode]
    /\ cwd = NoCwd
    /\ strict \in BOOLEAN
    /\ Start(InContext(inp.ctx, SpaceCat(inp.run \o " " \o Quoted(inp.code), inp.extra)))

SpecOneLiner == InitOneLiner /\ [][Next]_vars

\* C14: the inline code of an interpreter one-liner is read by the textual
\* heuristic only: its reason denies the segment; without one the segment
\* is denied in strict mode and in normal mode gets the answer of the
\* remaining checks.  The code is never analyzed as a command line of its
\* own: no call of _analyze_segment is made for it and the depth stays that
\* of the segment.
OneLinerScannedAsText ==
    /\ Len(trace) <= (IF inp.ctx = "shc" THEN 2 ELSE 1)
    /\ \A j \in 1..Len(trace) : trace[j].depth = j - 1
    /\ pc = "done" =>
          verdict.reason =
              IF CodeReason[inp.code] # "" THEN CodeReason[inp.code]
              ELSE IF strict THEN _REASON_ONE_LINER
              ELSE AfterCode[inp.extra]

\* Code that is dangerous as shell but holds no pattern of the heuristic:
\* allowed in normal mode.
OneLinerScannedAsTextWitness ==
    /\ Allowed /\ ~strict
    /\ inp.code = "cat ~/.ssh/id_rsa | git checkout main" /\ inp.extra = ""
    /\ inp.ctx = "alone" /\ Len(trace) = 1

(***************************************************************************)
(* The textual heuristic on texts that hold its patterns                   *)
(***************************************************************************)
\* Texts with the reason of the pattern they hold, "" when they hold none.
PatternReason ==
    [text \in {"git reset --hard", "Git Reset --Hard", "git reset --merge",
               "git clean -f", "git clean --force", "git push --force", "git push -f",
               "git push --force-with-lease", "git branch -D feature", "git branch -d feature",
               "git stash drop", "git stash clear", "git checkout -- file.txt",
               "git restore file.txt", "git restore --worktree file.txt",
               "git restore --staged file.txt", "rm -r -f build", "git status"} |->
        CASE text \in {"git reset --hard", "Git Reset --Hard"} -> _REASON_GIT_RESET_HARD
          [] text = "git reset --merge" -> _REASON_GIT_RESET_MERGE
          [] text \in {"git clean -f", "git clean --force"} -> _REASON_GIT_CLEAN_FORCE
          [] text \in {"git push --force", "git push -f"} -> _REASON_GIT_PUSH_FORCE
          [] text = "git branch -D feature" -> _REASON_GIT_BRANCH_DELETE_FORCE
          [] text = "git stash drop" -> _REASON_GIT_STASH_DROP
          [] text = "git stash clear" -> _REASON_GIT_STASH_CLEAR
          [] text = "git checkout -- file.txt" -> _REASON_GIT_CHECKOUT_DOUBLE_DASH
          [] text = "git restore file.txt" -> _REASON_GIT_RESTORE
          [] text = "git restore --worktree file.txt" -> _REASON_GIT_RESTORE_WORKTREE
          [] text = "rm -r -f build" -> _REASON_RM_RF
          [] OTHER -> ""]

\* Command lines on which only the heuristic reads the text: an unparsable
\* segment, the code of a one-liner, an unparsable script of a shell -c.
OnlyText(ctx, c) ==
    CASE ctx = "unparsable" -> c \o " 'unterminated"
      [] ctx = "oneliner" -> "python -c " \o Quoted("os.system(\"" \o c \o "\")")
      [] ctx = "shunparsable" -> Nested(1, "sh", c \o " 'unterminated")

InitText ==
    /\ inp \in [ctx : {"unparsable", "oneliner", "shunparsable"}, text : DOMAIN PatternReason]
    /\ cwd \in Cwds
    /\ strict = FALSE
    /\ Start(OnlyText(inp.ctx, inp.text))

SpecText == InitText /\ [][Next]_vars

\* C15: the heuristic returns the reason of the listed pattern that the
\* text holds, in any letter case, and nothing when the text holds none.
HeuristicFindsItsPatterns ==
    pc = "done" => verdict.reason = PatternReason[inp.text]

(***************************************************************************)
(* The entry point on well-formed and malformed envelopes                  *)
(***************************************************************************)
\* What json.load can leave: no value (JSONDecodeError), a value that is not
\* an object, or an object with any tool name, tool_input and command.
Envelopes ==
    {[json |-> j, tool_name |-> "none", tool_input |-> "none", command |-> "none"] :
        j \in {"invalid", "list", "str"}}
    \cup [json : {"dict"}, tool_name : {"Bash", "Read", "none"},
          tool_input : {"dict", "list", "none"}, command : {"str", "int", "none"}]

EnvelopeCommands ==
    {"", "  ", "git status", "git reset --hard", "sh -c 'git stash drop'", "sh -c 'echo hi'",
     "cat ~/.ssh/id_rsa | wc -l", "echo 'unterminated"}

InitEnvelope ==
    /\ inp \in [envelope : Envelopes, command : EnvelopeCommands]
    /\ envelope = inp.envelope
    \* a command that is not a string, or that has no tool_input to sit in, has no text
    /\ (inp.envelope.tool_input # "dict" \/ inp.envelope.command # "str") => inp.command = ""
    /\ command = inp.command
    /\ cwd \in Cwds
    /\ strict \in BOOLEAN
    /\ output = NoOutput
    /\ exit_status = Running
    /\ pc = "main"
    /\ stack = <<>>
    /\ verdict = NoViolation
    /\ trace = <<>>
    /\ classified = <<>>

SpecEnvelope == InitEnvelope /\ [][Next]_vars

\* The kinds of malformed input, by what the envelope is.
Unparsable == envelope.json = "invalid"
NonObject == envelope.json \in {"list", "str"}
OtherTool == envelope.json = "dict" /\ envelope.tool_name # "Bash"
BadToolInput == envelope.json = "dict" /\ envelope.tool_name = "Bash" /\ envelope.tool_input # "dict"
NoCommand ==
    /\ envelope.json = "dict" /\ envelope.tool_name = "Bash" /\ envelope.tool_input = "dict"
    /\ (envelope.command # "str" \/ strip(command) = "")
Malformed == Unparsable \/ NonObject \/ OtherTool \/ BadToolInput \/ NoCommand

\* C16: in normal mode every malformed input is Allow with no output; in
\* strict mode an unparsable envelope, a non-object envelope and a non-object
\* tool_input of a Bash call are Deny with an invalid-input reason, another
\* tool and a missing, non-string or blank command are Allow; no malformed
\* input is analyzed; main always returns 0 and prints only on Deny.
MalformedInputPolicy ==
    /\ exit_status \in {Running, 0}
    /\ pc = "done" <=> exit_status = 0
    /\ pc # "done" => output = NoOutput
    /\ Malformed => trace = <<>> /\ stack = <<>> /\ verdict = NoViolation
    /\ (pc = "done" /\ Malformed) =>
          output = IF strict /\ Unparsable THEN DenyOutput(_INVALID_INPUT)
                   ELSE IF strict /\ (NonObject \/ BadToolInput) THEN DenyOutput(_INVALID_STRUCTURE)
                   ELSE NoOutput
    /\ (pc = "done" /\ ~Malformed) =>
          output = IF verdict.deny THEN DenyOutput(verdict.reason) ELSE NoOutput
    /\ output # NoOutput => output.permissionDecision = "deny" /\ output.reason # ""

\* A Bash call without a usable tool_input has been denied in strict mode.
MalformedInputPolicyWitness ==
    /\ pc = "done" /\ strict /\ BadToolInput
    /\ output = DenyOutput(_INVALID_STRUCTURE) /\ exit_status = 0

(***************************************************************************)
(* The depth along a chain of shell unwraps                                *)
(***************************************************************************)
\* The calls on the inputs of SpecDeep whose segment is a shell with an
\* inline script: a link of the chain, or the shell inside the long script.
ShellWithScript(call) ==
    \/ /\ call.depth < inp.n
       /\ strip(call.segment) = Nested(inp.n - call.depth, inp.shell, inp.script)
    \/ strip(call.segment) = "zsh -c 'git status'"

\* C18: the running calls have the depths 0, 1, 2, ... from the outermost
\* on, no segment is analyzed at a depth above the ceiling, and a shell with
\* an inline script met at the ceiling is the last segment analyzed and is
\* what the line is denied for, with the recursion-limit reason.
DepthAlongChain ==
    /\ \A k \in 1..Len(stack) : stack[k].depth = k - 1
    /\ \A j \in 1..Len(trace) :
          /\ trace[j].depth = trace[j].level - 1
          /\ trace[j].depth <= _MAX_RECURSION_DEPTH
          /\ (trace[j].depth >= _MAX_RECURSION_DEPTH /\ ShellWithScript(trace[j])) =>
                /\ j = Len(trace)
                /\ pc = "done" => verdict = Violation(trace[j].segment, _REASON_RECURSION_LIMIT)
          /\ (j < Len(trace) /\ ShellWithScript(trace[j])) =>
                trace[j + 1].depth = trace[j].depth + 1

\* A shell in the middle of a line analyzed at the ceiling has been denied.
DepthAlongChainWitness ==
    /\ DeniedWith(_REASON_RECURSION_LIMIT)
    /\ inp.n = _MAX_RECURSION_DEPTH
    /\ Len(trace) = _MAX_RECURSION_DEPTH + 3
    /\ trace[Len(trace)].depth = _MAX_RECURSION_DEPTH
    /\ strip(trace[Len(trace)].segment) = "zsh -c 'git status'"

(***************************************************************************)
(* A shell with an inline script as one segment of a line                  *)
(***************************************************************************)
\* Shells with the option forms from which the script is extracted.
UnwrapForms == {"sh -c", "bash -lc", "/bin/zsh -ic", "DASH -c", "sudo ksh --norc -cl"}
UnwrapScripts ==
    {"git status", "echo a ; git reset --hard", "cat ~/.ssh/id_rsa | wc",
     "git restore -h", "sh -c \"git stash drop\"", "rm -rf build"}
UnwrapExtras == {"", "$( git stash drop )"}
UnwrapBefore == {"", "cd /x ; "}

\* The segment under test: the shell, its script, and what follows the script.
UnwrapSegment == SpaceCat(inp.form \o " " \o Quoted(inp.script), inp.extra)

InitUnwrap ==
    /\ inp \in [form : UnwrapForms, script : UnwrapScripts, extra : UnwrapExtras,
                before : UnwrapBefore]
    /\ cwd \in Cwds
    /\ strict \in BOOLEAN
    /\ Start(inp.before \o UnwrapSegment)

SpecUnwrap == InitUnwrap /\ [][Next]_vars

\* The cwd the segment under test is analyzed with.
UnwrapCwd == IF inp.before = "" THEN cwd ELSE NoCwd

\* What the analysis of the script alone yields: its reason and its
\* offending segment, "" when it is allowed.
InnerReason ==
    CASE inp.script = "echo a ; git reset --hard" -> _REASON_GIT_RESET_HARD
      [] inp.script = "cat ~/.ssh/id_rsa | wc" -> _REASON_SENSITIVE_READ
      [] inp.script = "sh -c \"git stash drop\"" -> _REASON_GIT_STASH_DROP
      [] inp.script = "rm -rf build" /\ (strict \/ ~UnwrapCwd.known) -> _REASON_RM_RF
      [] OTHER -> ""
InnerSegment ==
    CASE inp.script = "echo a ; git reset --hard" -> "git reset --hard"
      [] inp.script = "cat ~/.ssh/id_rsa | wc" -> "cat ~/.ssh/id_rsa"
      [] inp.script = "sh -c \"git stash drop\"" -> "git stash drop"
      [] OTHER -> inp.script

\* The first segment of the script.
InnerFirst ==
    CASE inp.script = "echo a ; git reset --hard" -> "echo a"
      [] inp.script = "cat ~/.ssh/id_rsa | wc" -> "cat ~/.ssh/id_rsa"
      [] OTHER -> inp.script

\* What the checks after the unwrap find in the segment under test.
RemainingReason ==
    IF inp.extra = "$( git stash drop )" THEN _REASON_GIT_STASH_DROP
    ELSE IF inp.script = "git restore -h" THEN _REASON_GIT_RESTORE
    ELSE IF inp.script = "rm -rf build" THEN _REASON_RM_RF
    ELSE ""

\* The position in the trace of the call on the segment under test.
UnwrapAt == IF inp.before = "" THEN 1 ELSE 2

\* C19: the inline script of a shell segment met below the ceiling is
\* analyzed segment by segment at depth + 1 with the cwd and strict of the
\* segment; a Deny of the script is the Deny of the line, with the script's
\* reason and segment; after an Allow the remaining checks still read the
\* shell segment and can deny it.
UnwrapPassesInnerVerdict ==
    /\ Len(trace) > UnwrapAt =>
          /\ strip(trace[UnwrapAt].segment) = UnwrapSegment
          /\ trace[UnwrapAt].cwd = UnwrapCwd
          /\ trace[UnwrapAt + 1].depth = trace[UnwrapAt].depth + 1
          /\ trace[UnwrapAt + 1].cwd = UnwrapCwd
          /\ strip(trace[UnwrapAt + 1].segment) = InnerFirst
    /\ pc = "done" =>
          /\ Len(trace) > UnwrapAt
          /\ verdict =
                IF InnerReason # "" THEN Violation(verdict.segment, InnerReason)
                ELSE ViolationIf(verdict.segment, RemainingReason)
          /\ strip(verdict.segment) =
                IF InnerReason # "" THEN InnerSegment
                ELSE IF RemainingReason # "" THEN UnwrapSegment
                ELSE ""

\* A script that is allowed in a shell segment that the heuristic denies.
UnwrapPassesInnerVerdictWitness ==
    /\ pc = "done" /\ inp.script = "rm -rf build" /\ inp.extra = "" /\ inp.form = "bash -lc"
    /\ UnwrapCwd.known /\ ~strict
    /\ Len(trace) = 2 /\ trace[2].depth = 1 /\ trace[2].cwd = cwd
    /\ verdict = Violation(UnwrapSegment, _REASON_RM_RF)

(***************************************************************************)
(* Segments that cannot be tokenized                                       *)
(***************************************************************************)
\* Texts ending in an unterminated quote, with the reason of the pattern of
\* the heuristic they hold, "" when they hold none: the last five would be
\* denied by an engine, an unwrap or the embedded scan if they were parsed.
UnparsableReason ==
    [text \in {"echo ok 'unterminated", "git reset --hard 'unterminated",
               "rm -rf / 'unterminated", "sudo git stash drop \"unterminated",
               "cat ~/.ssh/id_rsa 'unterminated", "git checkout main 'unterminated",
               "sudo git commit --amend 'unterminated",
               "sh -c \"cat ~/.ssh/id_rsa\" 'unterminated",
               "echo $( git rebase main ) 'unterminated"} |->
        CASE text = "git reset --hard 'unterminated" -> _REASON_GIT_RESET_HARD
          [] text = "rm -rf / 'unterminated" -> _REASON_RM_RF
          [] text = "sudo git stash drop \"unterminated" -> _REASON_GIT_STASH_DROP
          [] OTHER -> ""]

\* The text as the whole line, as the script of a shell segment, and as
\* such a script followed by a segment that is denied.
UnparsableContexts == {"alone", "script", "script then"}
UnparsableLine(ctx, text) ==
    CASE ctx = "alone" -> text
      [] ctx = "script" -> Nested(1, "sh", text)
      [] ctx = "script then" -> Nested(1, "sh", text) \o " ; git reset --hard"

InitUnparsable ==
    /\ inp \in [ctx : UnparsableContexts, text : DOMAIN UnparsableReason]
    /\ cwd \in Cwds
    /\ strict \in BOOLEAN
    /\ Start(UnparsableLine(inp.ctx, inp.text))

SpecUnparsable == InitUnparsable /\ [][Next]_vars

\* The position in the trace of the call on the unparsable text.
UnparsableAt == IF inp.ctx = "alone" THEN 1 ELSE 2

\* C20: a segment that cannot be tokenized is a single call that makes no
\* further call; in strict mode it is denied as unparsable whatever it
\* holds, in normal mode it is denied exactly when the heuristic finds a
\* pattern in its text, and otherwise the analysis goes on after it.
UnparsableSegmentRule ==
    /\ Len(trace) >= UnparsableAt =>
          /\ trace[UnparsableAt].segment = inp.text
          /\ \A j \in 1..Len(trace) : j > UnparsableAt => trace[j].depth = 0
    /\ pc = "done" =>
          /\ Len(trace) >= UnparsableAt
          /\ verdict =
                IF strict THEN Violation(inp.text, _REASON_UNPARSABLE)
                ELSE IF UnparsableReason[inp.text] # ""
                     THEN Violation(inp.text, UnparsableReason[inp.text])
                ELSE IF inp.ctx = "script then"
                     THEN Violation(" git reset --hard", _REASON_GIT_RESET_HARD)
                ELSE NoViolation
          /\ Len(trace) =
                IF strict \/ UnparsableReason[inp.text] # "" \/ inp.ctx # "script then"
                THEN UnparsableAt ELSE UnparsableAt + 1

\* In normal mode an unparsable read of a key file was passed over and the
\* segment after the shell was analyzed and denied.
UnparsableSegmentRuleWitness ==
    /\ pc = "done" /\ ~strict /\ inp.ctx = "script then"
    /\ inp.text = "cat ~/.ssh/id_rsa 'unterminated"
    /\ Len(trace) = 3
    /\ verdict = Violation(" git reset --hard", _REASON_GIT_RESET_HARD)

(***************************************************************************)
(* The file arguments of a read command                                    *)
(***************************************************************************)
MaxReadArgs == 4
ReadHeads == {"cat", "Tail", "ls"}
\* A value-taking flag, the end of options, another flag, a key file and a
\* harmless file.
ReadTokens == {"-n", "--", "-v", "~/.ssh/id_rsa", "notes.txt"}
ReadContexts == {"alone", "shc"}

InitRead ==
    /\ inp \in [head : ReadHeads, args : SeqsUpTo(ReadTokens, MaxReadArgs), ctx : ReadContexts]
    /\ cwd = NoCwd
    /\ strict = FALSE
    /\ Start(InContext(inp.ctx, SpaceCat(inp.head, Words(inp.args))))

SpecRead == InitRead /\ [][Next]_vars

\* The position of the first literal "--" among the arguments, one past the
\* end when there is none.
FirstDoubleDash ==
    IF \E i \in 1..Len(inp.args) : inp.args[i] = "--"
    THEN SetMin({i \in 1..Len(inp.args) : inp.args[i] = "--"})
    ELSE Len(inp.args) + 1

\* The arguments checked as file paths as the rule is stated: before the
\* first "--" the tokens that are not flag-shaped and do not follow a
\* value-taking flag, after it every token.
CheckedAsPath(i) ==
    \/ i > FirstDoubleDash
    \/ /\ i < FirstDoubleDash
       /\ inp.args[i] \in {"~/.ssh/id_rsa", "notes.txt"}
       /\ ~(i > 1 /\ inp.args[i - 1] = "-n")

\* C21: a read command with a sensitive path among the arguments checked
\* as file paths (before the first "--": not flag-shaped and not right after
\* a value-taking flag; after it: every token) is Deny.
CheckedSensitivePathDenied ==
    (/\ pc = "done"
     /\ inp.head \in {"cat", "Tail"}
     /\ \E i \in 1..Len(inp.args) : CheckedAsPath(i) /\ inp.args[i] = "~/.ssh/id_rsa")
        => Denied

(***************************************************************************)
(* The same command line in normal mode and then in strict mode            *)
(***************************************************************************)
MaxModeSegs == 2
\* Segments on which the mode can matter (unparsable text, one-liners, a
\* shell whose -c has no script) and segments denied or allowed in both
\* modes; none of them is a delete command.
ModeSegments ==
    {"git status", "git stash drop", "cat ~/.ssh/id_rsa", "python -c 'print(1)'",
     "node -e 'git reset --hard'", "sh -c", "bash -c 'git clean -f'",
     "zsh -c \"echo 'unterminated\"", "echo $( git rebase main"}
\* Lines that are one unparsable segment as a whole.
ModeLines == {"git checkout main 'unterminated", "git reset --hard ; echo 'unterminated"}

InitModes ==
    /\ inp \in [line : {join(segs, " ; ") : segs \in SeqsUpTo(ModeSegments, MaxModeSegs) \ {<<>>}}
                       \cup ModeLines,
                wrap : BOOLEAN, run : {"normal"}, normal : {NoViolation}]
    /\ cwd \in Cwds
    /\ strict = FALSE
    /\ Start(IF inp.wrap THEN Nested(1, "sh", inp.line) ELSE inp.line)

\* main() is run again on the same envelope with SAFETY_NET_STRICT set; the
\* verdict of the normal run is kept in inp.
StrictRerun ==
    /\ pc = "done" /\ ~strict
    /\ strict' = TRUE
    /\ inp' = [inp EXCEPT !.run = "strict", !.normal = verdict]
    /\ pc' = "main"
    /\ stack' = <<>>
    /\ verdict' = NoViolation
    /\ trace' = <<>>
    /\ output' = NoOutput
    /\ exit_status' = Running
    /\ UNCHANGED <<envelope, command, cwd, classified>>

NextModes == Next \/ StrictRerun

SpecModes == InitModes /\ [][NextModes]_vars

\* C22: a command line without a delete command that is Deny in normal mode
\* is Deny in strict mode.
StrictOnlyAddsDenials ==
    (pc = "done" /\ strict /\ inp.normal.deny) => verdict.deny

\* A line denied in both modes, in strict mode for an earlier segment and
\* with another reason.
StrictOnlyAddsDenialsWitness ==
    /\ pc = "done" /\ strict /\ inp.normal.deny /\ verdict.deny
    /\ inp.line = "python -c 'print(1)' ; git stash drop" /\ ~inp.wrap
    /\ inp.normal = Violation(" git stash drop", _REASON_GIT_STASH_DROP)
    /\ verdict = Violation("python -c 'print(1)' ", _REASON_ONE_LINER)

====
